---------------------------- MODULE Spec2Model ----------------------------
(***************************************************************************)
(* LinkedInProfileExtractor (src/linked_scrapper_v3.py): the heuristic     *)
(* record extractor over a parsed document tree; LinkedInScraper (same     *)
(* file) and LinkedInScraperV2 (src/linkedin_scrapper_v2.py): the browser  *)
(* sessions that fetch the page.                                           *)
(*                                                                         *)
(* Texts are strings over ASCII.  Two characters of the source that are    *)
(* not ASCII are written with stand-ins that occur nowhere else:           *)
(*     "^"  is the middle dot U+00B7,   "~"  is the en dash U+2013.        *)
(* Python's None is the value None below, a string no text of the model    *)
(* can equal (no text holds "<").                                          *)
(***************************************************************************)
EXTENDS Integers, Sequences, FiniteSets, TLC

VARIABLES
    soup,          \* self.soup: the parsed document, nodes in document order
    profile_data,  \* self.profile_data: the result under construction
    pc,            \* position of the run: the next extractor, or call/return
    exc,           \* the exception that ended the run, None when none did
    arg,           \* argument of the utility call under check
    ret,           \* value the utility call returned; in a run of extract()
                   \* the results it has returned so far, None before the first
    scraper,       \* the fields of the LinkedInScraper or LinkedInScraperV2
    browser,       \* the Chrome window behind self.driver and what it shows
    session_file,  \* the file self.session_file names
    frame          \* the locals of the scraper method that is running

vars == <<soup, profile_data, pc, exc, arg, ret,
          scraper, browser, session_file, frame>>

\* the variables of the browser sessions
web == <<scraper, browser, session_file, frame>>

None == "<None>"

\* no scraper has been constructed
NoScraper ==
    /\ scraper = None
    /\ browser = None
    /\ session_file = None
    /\ frame = None
MIDDOT == "^"
ENDASH == "~"

(***************************************************************************)
(* Characters and strings                                                  *)
(***************************************************************************)
Ch(s, i) == SubSeq(s, i, i)

UpperChars == "ABCDEFGHIJKLMNOPQRSTUVWXYZ"
LowerChars == "abcdefghijklmnopqrstuvwxyz"
DigitChars == "0123456789"

UpperSet == {Ch(UpperChars, k) : k \in 1..Len(UpperChars)}
LowerSet == {Ch(LowerChars, k) : k \in 1..Len(LowerChars)}
DigitSet == {Ch(DigitChars, k) : k \in 1..Len(DigitChars)}

\* \s of the re module and the characters str.strip() removes
Whitespace == {" ", "\t", "\n", "\r", "\f"}

IsSpace(c) == c \in Whitespace
IsDigit(c) == c \in DigitSet
IsAlpha(c) == c \in UpperSet \cup LowerSet
\* \w of the re module
IsWord(c) == IsAlpha(c) \/ IsDigit(c) \/ c = "_"

ToLowerMap ==
    [c \in UpperSet |->
        Ch(LowerChars, CHOOSE k \in 1..Len(UpperChars) : Ch(UpperChars, k) = c)]

LowerCh(c) == IF c \in UpperSet THEN ToLowerMap[c] ELSE c

RECURSIVE LowerRange(_, _, _)
\* the characters a..b of s in lower case (by halves, to keep the nesting flat)
LowerRange(s, a, b) ==
    IF a > b THEN ""
    ELSE IF a = b THEN LowerCh(Ch(s, a))
    ELSE LowerRange(s, a, (a + b) \div 2) \o LowerRange(s, (a + b) \div 2 + 1, b)

\* str.lower()
Lower(s) == LowerRange(s, 1, Len(s))

\* sub in s
Contains(s, sub) ==
    \E i \in 1..(Len(s) - Len(sub) + 1) : SubSeq(s, i, i + Len(sub) - 1) = sub

\* s.startswith(p)
StartsWith(s, p) == Len(p) <= Len(s) /\ SubSeq(s, 1, Len(p)) = p

\* str.strip()
Strip(s) ==
    LET keep == {i \in 1..Len(s) : ~IsSpace(Ch(s, i))}
    IN  IF keep = {} THEN ""
        ELSE SubSeq(s, CHOOSE a \in keep : \A b \in keep : a <= b,
                       CHOOSE a \in keep : \A b \in keep : a >= b)

RECURSIVE CollapseRange(_, _, _)
\* what re.sub(r'\s+', ' ', s) leaves of the characters a..b of s: a space
\* for the first character of a whitespace run, nothing for the others
CollapseRange(s, a, b) ==
    IF a > b THEN ""
    ELSE IF a = b
         THEN (IF ~IsSpace(Ch(s, a)) THEN Ch(s, a)
               ELSE IF a > 1 /\ IsSpace(Ch(s, a - 1)) THEN "" ELSE " ")
    ELSE CollapseRange(s, a, (a + b) \div 2)
         \o CollapseRange(s, (a + b) \div 2 + 1, b)

\* re.sub(r'\s+', ' ', s)
CollapseWhitespace(s) == CollapseRange(s, 1, Len(s))

\* A bug that forgets the strip: only the runs are collapsed.
NormalizeTextNoStrip(text) ==
    IF text = None \/ text = "" THEN None
    ELSE LET cleaned == CollapseWhitespace(text)
         IN  IF cleaned = "" THEN None ELSE cleaned

\* _normalize_text
NormalizeText(text) ==
    IF text = None \/ text = "" THEN None
    ELSE LET cleaned == CollapseWhitespace(Strip(text))
         IN  IF cleaned = "" THEN None ELSE cleaned

(***************************************************************************)
(* Bounded sets of input texts                                             *)
(***************************************************************************)
RECURSIVE StringsOver(_, _)
\* every string of at most n pieces drawn from the set pieces
StringsOver(pieces, n) ==
    IF n = 0 THEN {""}
    ELSE LET shorter == StringsOver(pieces, n - 1)
         IN  shorter \cup {s \o p : s \in shorter, p \in pieces}

MaxTextLen == 5

NormalizeAlphabet == {"a", "b", " ", "\n"}

NormalizeInputs ==
    StringsOver(NormalizeAlphabet, MaxTextLen)
        \cup {None, "  a   b \n c ", "   ", "\t x \r\n y\f"}

(***************************************************************************)
(* The state of an extractor on which no extraction runs                   *)
(***************************************************************************)
\* _initialize_structure
InitializeStructure ==
    [basic_profile |-> [full_name |-> None, headline |-> None,
                        location |-> None, current_company |-> None,
                        profile_summary |-> None],
     experience |-> <<>>, education |-> <<>>, skills |-> <<>>,
     certifications |-> <<>>, projects |-> <<>>, honors_awards |-> <<>>,
     volunteering |-> <<>>]

IdleExtractor ==
    /\ NoScraper
    /\ soup = <<>>
    /\ profile_data = InitializeStructure
    /\ exc = None

(***************************************************************************)
(* SpecNormalize: one call of _normalize_text                              *)
(***************************************************************************)
InitNormalize ==
    /\ IdleExtractor
    /\ pc = "call"
    /\ arg \in NormalizeInputs
    /\ ret = None

CallNormalizeText ==
    /\ pc = "call"
    /\ ret' = NormalizeText(arg)
    /\ pc' = "return"
    /\ UNCHANGED <<soup, profile_data, exc, arg, web>>

NextNormalize == CallNormalizeText

SpecNormalize == InitNormalize /\ [][NextNormalize]_vars

\* C9: normalize returns either absent or a non-empty string with no
\* leading or trailing whitespace in which every whitespace character is a
\* single space followed by a non-whitespace character; it is absent exactly
\* when the input is absent, empty or whitespace-only; the characters that
\* are not whitespace are kept in order; and the two examples of the spec.
AllWhitespace(s) == \A i \in 1..Len(s) : IsSpace(Ch(s, i))

RECURSIVE NonSpaceFrom(_, _)
\* the characters of s from position i on that are not whitespace
NonSpaceFrom(s, i) ==
    IF i > Len(s) THEN ""
    ELSE (IF IsSpace(Ch(s, i)) THEN "" ELSE Ch(s, i)) \o NonSpaceFrom(s, i + 1)

NormalizeContract ==
    pc = "return" =>
        /\ (ret = None) <=> (arg = None \/ AllWhitespace(arg))
        /\ ret # None =>
              /\ Len(ret) > 0
              /\ ~IsSpace(Ch(ret, 1))
              /\ ~IsSpace(Ch(ret, Len(ret)))
              /\ \A i \in 1..Len(ret) :
                    IsSpace(Ch(ret, i)) =>
                        Ch(ret, i) = " " /\ ~IsSpace(Ch(ret, i + 1))
              /\ NonSpaceFrom(ret, 1) = NonSpaceFrom(arg, 1)
        /\ arg = "  a   b \n c " => ret = "a b c"
        /\ arg = "   " => ret = None

\* a call whose input has leading, trailing and inner runs of whitespace
NormalizeWitness ==
    /\ pc = "return"
    /\ arg = "  a   b \n c "
    /\ ret = "a b c"

(***************************************************************************)
(* _extract_date_range: the two regular expressions                        *)
(***************************************************************************)
RECURSIVE SkipSpaces(_, _)
\* the first position from i on that holds no whitespace (Len(s)+1 if none)
SkipSpaces(s, i) ==
    IF i <= Len(s) /\ IsSpace(Ch(s, i)) THEN SkipSpaces(s, i + 1) ELSE i

RECURSIVE SkipAlpha(_, _)
\* the first position from i on that holds no letter
SkipAlpha(s, i) ==
    IF i <= Len(s) /\ IsAlpha(Ch(s, i)) THEN SkipAlpha(s, i + 1) ELSE i

\* \d{4} at position i
FourDigitsAt(s, i) ==
    i >= 1 /\ i + 3 <= Len(s) /\ \A k \in i..(i + 3) : IsDigit(Ch(s, k))

\* [A-Za-z]+\s+\d{4} at position i: the position of its last character, 0
\* when it does not match.  Both runs are greedy and what follows each run
\* cannot start inside it, so only the longest runs can match.
MonthYearEnd(s, i) ==
    LET j == SkipAlpha(s, i)
        k == SkipSpaces(s, j)
    IN  IF j > i /\ k > j /\ FourDigitsAt(s, k) THEN k + 3 ELSE 0

\* group 1, ([A-Za-z]+\s+\d{4}|\d{4}), at position i
DateStartEnd(s, i) ==
    IF MonthYearEnd(s, i) # 0 THEN MonthYearEnd(s, i)
    ELSE IF FourDigitsAt(s, i) THEN i + 3
    ELSE 0

\* group 2, ([A-Za-z]+\s+\d{4}|\d{4}|Present) under re.IGNORECASE
DateEndEnd(s, i) ==
    IF MonthYearEnd(s, i) # 0 THEN MonthYearEnd(s, i)
    ELSE IF FourDigitsAt(s, i) THEN i + 3
    ELSE IF i + 6 <= Len(s) /\ Lower(SubSeq(s, i, i + 6)) = "present" THEN i + 6
    ELSE 0

\* date_pattern matched at position i: <<group(1), group(2)>>, or <<>>
DateMatchAt(s, i) ==
    LET e1 == DateStartEnd(s, i)
        d  == SkipSpaces(s, e1 + 1)
        b  == SkipSpaces(s, d + 1)
        e2 == DateEndEnd(s, b)
    IN  IF /\ e1 # 0
           /\ d <= Len(s)
           /\ Ch(s, d) \in {"-", ENDASH}
           /\ b <= Len(s)
           /\ e2 # 0
        THEN <<SubSeq(s, i, e1), SubSeq(s, b, e2)>>
        ELSE <<>>

\* re.search(date_pattern, text, re.IGNORECASE): the leftmost match
DateSearch(s) ==
    LET Leftmost(hits) ==
            IF hits = {} THEN <<>>
            ELSE DateMatchAt(s, CHOOSE i \in hits : \A j \in hits : i <= j)
    IN  Leftmost({i \in 1..Len(s) : DateMatchAt(s, i) # <<>>})

\* $ without re.MULTILINE: the end of the text, or just before a last newline
AtEndOfText(s, p) == p = Len(s) + 1 \/ (p = Len(s) /\ Ch(s, p) = "\n")

\* (.+?)(?:\s*MIDDOT|$) with the group being s[g..e]
DurationGroupOk(s, g, e) ==
    /\ g <= e
    /\ e <= Len(s)
    /\ \A k \in g..e : Ch(s, k) # "\n"
    /\ \/ LET d == SkipSpaces(s, e + 1) IN d <= Len(s) /\ Ch(s, d) = MIDDOT
       \/ AtEndOfText(s, e + 1)

\* duration_pattern matched at position i: <<group(1)>>, or <<>>.  The \s*
\* is greedy and gives whitespace back one character at a time; the group is
\* lazy and grows one character at a time.
DurationMatchAt(s, i) ==
    LET w  == SkipSpaces(s, i + 1)
        gs == {g \in (i + 1)..w : \E e \in g..Len(s) : DurationGroupOk(s, g, e)}
    IN  IF Ch(s, i) # MIDDOT \/ gs = {} THEN <<>>
        ELSE LET g  == CHOOSE x \in gs : \A y \in gs : x >= y
                 es == {e \in g..Len(s) : DurationGroupOk(s, g, e)}
                 e  == CHOOSE x \in es : \A y \in es : x <= y
             IN  <<SubSeq(s, g, e)>>

\* re.search(duration_pattern, text)
DurationSearch(s) ==
    LET Leftmost(hits) ==
            IF hits = {} THEN <<>>
            ELSE DurationMatchAt(s, CHOOSE i \in hits : \A j \in hits : i <= j)
    IN  Leftmost({i \in 1..Len(s) : DurationMatchAt(s, i) # <<>>})

\* A bug that looks for the duration only behind a date range.
ExtractDateRangeNested(text) ==
    LET Fields(date_match, duration_match) ==
            [start_date |-> IF date_match # <<>> THEN Strip(date_match[1])
                            ELSE None,
             end_date   |-> IF date_match # <<>> THEN Strip(date_match[2])
                            ELSE None,
             duration   |-> IF date_match # <<>> /\ duration_match # <<>>
                            THEN Strip(duration_match[1]) ELSE None]
    IN  Fields(DateSearch(text), DurationSearch(text))

\* _extract_date_range
ExtractDateRange(text) ==
    LET Fields(date_match, duration_match) ==
            [start_date |-> IF date_match # <<>> THEN Strip(date_match[1])
                            ELSE None,
             end_date   |-> IF date_match # <<>> THEN Strip(date_match[2])
                            ELSE None,
             duration   |-> IF duration_match # <<>>
                            THEN Strip(duration_match[1]) ELSE None]
    IN  Fields(DateSearch(text), DurationSearch(text))

(***************************************************************************)
(* SpecDateRange: one call of _extract_date_range                          *)
(***************************************************************************)
MaxDatePieces == 4

DatePieces == {"Jan 2019", "2020", "-", " ", "Present", MIDDOT, "3 yrs"}

DateRangeExample == "Jan 2019 - Present ^ 3 yrs 2 mos ^"

DateRangeInputs ==
    StringsOver(DatePieces, MaxDatePieces)
        \cup {DateRangeExample,
              "Jun 2018 ~ aug 2019",
              "2015~PRESENT",
              "Since 2019 - 2020",
              "Jan 2020 - Present ^ 3 yrs",
              "^ 2 yrs\n^ x",
              "May 12 - 2020"}

InitDateRange ==
    /\ IdleExtractor
    /\ pc = "call"
    /\ arg \in DateRangeInputs
    /\ ret = None

CallExtractDateRange ==
    /\ pc = "call"
    /\ ret' = ExtractDateRange(arg)
    /\ pc' = "return"
    /\ UNCHANGED <<soup, profile_data, exc, arg, web>>

NextDateRange == CallExtractDateRange

SpecDateRange == InitDateRange /\ [][NextDateRange]_vars

\* positions of the middle dots of s
DotPositions(s) == {i \in 1..Len(s) : Ch(s, i) = MIDDOT}

\* the text between the first middle dot of s and the next one (or the end)
FirstDotSegment(s) ==
    LET dots  == DotPositions(s)
        first == CHOOSE i \in dots : \A j \in dots : i <= j
        later == {j \in dots : j > first}
        next  == IF later = {} THEN Len(s) + 1
                 ELSE CHOOSE i \in later : \A j \in later : i <= j
    IN  SubSeq(s, first + 1, next - 1)

\* C10: start and end are set together; the duration is the trimmed segment
\* behind the first middle dot, whether or not a date range matched (and is
\* unset in a text without a middle dot); the example of the spec.
DateRangeContract ==
    pc = "return" =>
        /\ (ret.start_date = None) <=> (ret.end_date = None)
        /\ DotPositions(arg) = {} => ret.duration = None
        /\ (/\ DotPositions(arg) # {}
            /\ ~AllWhitespace(FirstDotSegment(arg))
            /\ ~Contains(FirstDotSegment(arg), "\n"))
              => ret.duration = Strip(FirstDotSegment(arg))
        /\ arg = DateRangeExample =>
              ret = [start_date |-> "Jan 2019", end_date |-> "Present",
                     duration |-> "3 yrs 2 mos"]

\* a call that finds a duration in a text that holds no date range
DateRangeWitness ==
    /\ pc = "return"
    /\ arg = "^3 yrs"
    /\ ret = [start_date |-> None, end_date |-> None, duration |-> "3 yrs"]


(***************************************************************************)
(* The parsed document (BeautifulSoup).  soup is the sequence of its nodes *)
(* in document order; a node is an element (name, attrs) or a string       *)
(* (name "#text").  parent is the position of the parent node, 0 for the   *)
(* BeautifulSoup object itself.                                            *)
(***************************************************************************)
NoNode == -1

Elem(name, parent, attrs) ==
    [name |-> name, parent |-> parent, attrs |-> attrs, string |-> ""]

Txt(parent, s) ==
    [name |-> "#text", parent |-> parent, attrs |-> {}, string |-> s]

RECURSIVE IsAncestor(_, _, _)
\* node a is an ancestor of node j (0, the document, is one of every node)
IsAncestor(doc, a, j) ==
    IF j = 0 THEN FALSE
    ELSE doc[j].parent = a \/ IsAncestor(doc, a, doc[j].parent)

\* the members of a set of positions, in ascending order
Ascending(set) ==
    [k \in 1..Cardinality(set) |->
        CHOOSE x \in set : Cardinality({y \in set : y < x}) = k - 1]

\* Tag.find_all(names): the descendants of root with one of the names
FindAll(doc, root, names) ==
    Ascending({j \in 1..Len(doc) :
                  doc[j].name \in names /\ IsAncestor(doc, root, j)})

RECURSIVE TextRange(_, _, _, _)
\* the strings below root among the nodes a..b, concatenated
TextRange(doc, root, a, b) ==
    IF a > b THEN ""
    ELSE IF a = b
         THEN (IF doc[a].name = "#text" /\ IsAncestor(doc, root, a)
               THEN doc[a].string ELSE "")
    ELSE TextRange(doc, root, a, (a + b) \div 2)
         \o TextRange(doc, root, (a + b) \div 2 + 1, b)

\* Tag.get_text(): the strings below the node, concatenated
GetText(doc, root) == TextRange(doc, root, root + 1, Len(doc))

RECURSIVE FindParent(_, _, _, _)
\* Tag.find_parent(names, **kwargs): the nearest ancestor with one of the
\* names that carries every attribute of required.  find_parent has no
\* parameter called recursive: a keyword argument it does not know is a
\* filter on the attribute of that name, and the value True asks for the
\* attribute to be present.
FindParent(doc, j, names, required) ==
    LET p == doc[j].parent
    IN  IF p = 0 THEN NoNode
        ELSE IF doc[p].name \in names /\ required \subseteq doc[p].attrs
             THEN p
             ELSE FindParent(doc, p, names, required)

\* SECTION_HEADERS
SECTION_HEADERS ==
    [about          |-> <<"about", "summary">>,
     experience     |-> <<"experience">>,
     education      |-> <<"education">>,
     skills         |-> <<"skills", "skills & endorsements">>,
     certifications |-> <<"licenses & certifications", "certifications">>,
     projects       |-> <<"projects">>,
     honors         |-> <<"honors & awards", "honors", "awards">>,
     volunteering   |-> <<"volunteering", "volunteer experience">>]

HeaderTags == {"h2", "h3", "h4", "span", "div"}

\* the test of _find_section_by_header on one element
MatchesHeader(doc, element, header_keywords) ==
    LET text == NormalizeText(GetText(doc, element))
    IN  /\ text # None
        /\ \E k \in 1..Len(header_keywords) :
              \/ Lower(text) = Lower(header_keywords[k])
              \/ StartsWith(Lower(text), Lower(header_keywords[k]))

\* the keyword arguments of the find_parent call of _find_section_by_header
SectionParentFilter == {"recursive"}

\* _find_section_by_header: the first element, in document order, that
\* matches a keyword and for which find_parent finds a section
FindSectionByHeader(doc, header_keywords) ==
    LET hits == {e \in 1..Len(doc) :
                    /\ doc[e].name \in HeaderTags
                    /\ MatchesHeader(doc, e, header_keywords)
                    /\ FindParent(doc, e, {"section", "div"},
                                  SectionParentFilter) # NoNode}
    IN  IF hits = {} THEN NoNode
        ELSE FindParent(doc, CHOOSE e \in hits : \A f \in hits : e <= f,
                        {"section", "div"}, SectionParentFilter)

\* _get_list_items_from_section
\* A segmenter that counts every container child, lists included, where
\* the code counts the div children only.
GetListItemsFromSectionAnyContainer(doc, section) ==
    LET list_items == FindAll(doc, section, {"li"})
        DirectContainers(c) ==
            Ascending({j \in 1..Len(doc) :
                          doc[j].parent = c /\ doc[j].name \in {"ul", "ol", "div"}})
        containers == {c \in 1..Len(doc) :
                          /\ doc[c].name \in {"ul", "ol", "div"}
                          /\ IsAncestor(doc, section, c)
                          /\ Len(DirectContainers(c)) >= 2}
    IN  IF list_items # <<>> THEN list_items
        ELSE IF containers # {}
             THEN DirectContainers(CHOOSE c \in containers : \A d \in containers : c <= d)
             ELSE <<>>

GetListItemsFromSection(doc, section) ==
    LET list_items == FindAll(doc, section, {"li"})
        DirectDivs(c) == Ascending({j \in 1..Len(doc) :
                                       doc[j].parent = c /\ doc[j].name = "div"})
        containers == {c \in 1..Len(doc) :
                          /\ doc[c].name \in {"ul", "ol", "div"}
                          /\ IsAncestor(doc, section, c)
                          /\ Len(DirectDivs(c)) >= 2}
    IN  IF list_items # <<>> THEN list_items
        ELSE IF containers # {}
             THEN DirectDivs(CHOOSE c \in containers : \A d \in containers : c <= d)
             ELSE <<>>

(***************************************************************************)
(* Sequences of fragments                                                  *)
(***************************************************************************)
\* the first position of seq whose entry satisfies P, 0 when none does
FirstWhere(seq, P(_)) ==
    LET hits == {i \in 1..Len(seq) : P(seq[i])}
    IN  IF hits = {} THEN 0 ELSE CHOOSE i \in hits : \A j \in hits : i <= j

\* A bug that forgets text_elements.remove(text): the list stays whole.
RemoveFirstKeeps(seq, x) == seq

\* list.remove(x): seq without the first entry equal to x
RemoveFirst(seq, x) ==
    LET i == FirstWhere(seq, LAMBDA y : y = x)
    IN  IF i = 0 THEN seq
        ELSE SubSeq(seq, 1, i - 1) \o SubSeq(seq, i + 1, Len(seq))

RECURSIVE NormalizedTexts(_, _)
\* the texts of the nodes, normalized, the empty ones left out
NormalizedTexts(doc, nodes) ==
    IF nodes = <<>> THEN <<>>
    ELSE LET text == NormalizeText(GetText(doc, Head(nodes)))
         IN  (IF text # None THEN <<text>> ELSE <<>>)
             \o NormalizedTexts(doc, Tail(nodes))

ItemTags == {"span", "div", "p", "h3", "h4"}

\* the text_elements every _parse_*_item collects from its item
ItemTexts(doc, item) == NormalizedTexts(doc, FindAll(doc, item, ItemTags))

AnyContained(text, words) == \E w \in words : Contains(text, w)


(***************************************************************************)
(* Experience                                                               *)
(***************************************************************************)
MonthWords ==
    {"jan", "feb", "mar", "apr", "may", "jun",
     "jul", "aug", "sep", "oct", "nov", "dec"}

HasFourDigits(text) == \E i \in 1..Len(text) : FourDigitsAt(text, i)

\* re.search(r'\d{4}|Jan|...|Dec|Present', text, re.IGNORECASE)
LooksLikeDateOrPresent(text) ==
    \/ HasFourDigits(text)
    \/ AnyContained(Lower(text), MonthWords \cup {"present"})

\* re.search(r'\d{4}|Jan|...|Dec', text, re.IGNORECASE)
LooksLikeDate(text) ==
    HasFourDigits(text) \/ AnyContained(Lower(text), MonthWords)

EmploymentTypes ==
    {"Full-time", "Part-time", "Contract", "Freelance", "Internship",
     "Self-employed"}

\* A title test without the length condition.
IsTitleCandidateAnyLength(text) ==
    ~AnyContained(Lower(text), {"experience", MIDDOT})

IsTitleCandidate(text) ==
    Len(text) > 3 /\ ~AnyContained(Lower(text), {"experience", MIDDOT})

\* An employment-type test that takes the keyword alone, not a fragment
\* that holds one.
IsEmploymentTypeExact(text) == text \in EmploymentTypes

IsEmploymentType(text) == AnyContained(text, EmploymentTypes)

IsDateRange(text) ==
    LooksLikeDateOrPresent(text) /\ ExtractDateRange(text).start_date # None

IsLocation(text) ==
    /\ Contains(text, ",") \/ AnyContained(Lower(text), {"remote", "hybrid"})
    /\ Len(text) < 100

\* `for text in text_elements[:]: if P(text): ...; text_elements.remove(text);
\* break`: the first fragment that satisfies P, None without one, and the
\* fragments that stay in the list
TakeFirst(seq, P(_)) ==
    LET i == FirstWhere(seq, P)
    IN  IF i = 0 THEN [text |-> None, rest |-> seq]
        ELSE [text |-> seq[i], rest |-> RemoveFirst(seq, seq[i])]

\* the title loop: the first candidate is the title and the list is cut
\* behind it, so the fragments in front of the title are dropped too
TakeTitle(seq) ==
    LET i == FirstWhere(seq, IsTitleCandidate)
    IN  IF i = 0 THEN [text |-> None, rest |-> seq]
        ELSE [text |-> seq[i], rest |-> SubSeq(seq, i + 1, Len(seq))]

\* the company is whatever fragment is first after the title step
TakeCompany(seq) ==
    IF seq # <<>> THEN [text |-> seq[1], rest |-> Tail(seq)]
    ELSE [text |-> None, rest |-> seq]

\* the three date fields a consumed date fragment gives
DateFields(text) ==
    IF text = None
    THEN [start_date |-> None, end_date |-> None, duration |-> None]
    ELSE ExtractDateRange(text)

\* the rule chain of _parse_experience_item on the fragments of an item;
\* description_list holds the normalized texts of the li elements below the
\* item and has_list tells whether there is any such element
ExperienceChain(text_elements, has_list, description_list) ==
    LET empty == [job_title |-> None, company_name |-> None,
                  employment_type |-> None, start_date |-> None,
                  end_date |-> None, duration |-> None, location |-> None,
                  description |-> <<>>]
        Record(title, company, employment, range, location) ==
            [job_title       |-> title.text,
             company_name    |-> company.text,
             employment_type |-> employment.text,
             start_date      |-> range.start_date,
             end_date        |-> range.end_date,
             duration        |-> range.duration,
             location        |-> location.text,
             description     |-> IF has_list THEN description_list
                                 ELSE SelectSeq(location.rest,
                                                LAMBDA x : Len(x) > 50)]
        AfterDate(title, company, employment, date) ==
            Record(title, company, employment, DateFields(date.text),
                   TakeFirst(date.rest, IsLocation))
        AfterEmployment(title, company, employment) ==
            AfterDate(title, company, employment,
                      TakeFirst(employment.rest, IsDateRange))
        AfterCompany(title, company) ==
            AfterEmployment(title, company,
                            TakeFirst(company.rest, IsEmploymentType))
        AfterTitle(title) == AfterCompany(title, TakeCompany(title.rest))
    IN  IF text_elements = <<>> THEN empty
        ELSE AfterTitle(TakeTitle(text_elements))

\* _parse_experience_item
ParseExperienceItem(doc, item) ==
    LET lis == FindAll(doc, item, {"li"})
    IN  ExperienceChain(ItemTexts(doc, item), lis # <<>>,
                        NormalizedTexts(doc, lis))

(***************************************************************************)
(* Education                                                                *)
(***************************************************************************)
DegreeWords ==
    {"Bachelor", "Master", "PhD", "Associate", "Doctorate", "Diploma",
     "Certificate"}

\* where r'\b(19|20)\d{2}\b' matches in the text.  A match is four digits
\* between two word boundaries, so no two matches overlap and re.findall
\* reports every one of them.
YearPositions(text) ==
    Ascending({i \in 1..Len(text) :
        /\ FourDigitsAt(text, i)
        /\ SubSeq(text, i, i + 1) \in {"19", "20"}
        /\ i = 1 \/ ~IsWord(Ch(text, i - 1))
        /\ i + 3 = Len(text) \/ ~IsWord(Ch(text, i + 4))})

\* re.findall(r'\b(19|20)\d{2}\b', text): the pattern has one group, and
\* findall then returns what the group matched, not the whole match
YearFindAll(text) ==
    LET at == YearPositions(text)
    IN  [k \in 1..Len(at) |-> SubSeq(text, at[k], at[k] + 1)]

\* text.split(',')
SplitComma(text) ==
    LET commas == Ascending({i \in 1..Len(text) : Ch(text, i) = ","})
        cuts   == <<0>> \o commas \o <<Len(text) + 1>>
    IN  [k \in 1..(Len(commas) + 1) |->
            SubSeq(text, cuts[k] + 1, cuts[k + 1] - 1)]

IsDegree(text) == AnyContained(text, DegreeWords)

HasYears(text) == Len(YearFindAll(text)) \in {1, 2}

IsGrade(text) == AnyContained(Lower(text), {"gpa", "grade", "cgpa", "score"})

IsActivities(text) == Contains(Lower(text), "activities") \/ Len(text) > 30

\* the rule chain of _parse_education_item on the fragments of an item
EducationChain(text_elements) ==
    LET empty == [institution_name |-> None, degree |-> None,
                  field_of_study |-> None, start_year |-> None,
                  end_year |-> None, grade |-> None, activities |-> None]
        te1 == Tail(text_elements)
        g   == FirstWhere(te1, IsDegree)
        parts == SplitComma(te1[g])
        te2 == IF g # 0 THEN RemoveFirst(te1, te1[g]) ELSE te1
        y   == FirstWhere(te2, HasYears)
        year_match == YearFindAll(te2[y])
        te3 == IF y # 0 THEN RemoveFirst(te2, te2[y]) ELSE te2
        r   == FirstWhere(te3, IsGrade)
        te4 == IF r # 0 THEN RemoveFirst(te3, te3[r]) ELSE te3
        a   == FirstWhere(te4, IsActivities)
    IN  IF text_elements = <<>> THEN empty
        ELSE [institution_name |-> text_elements[1],
              degree         |-> IF g # 0 THEN Strip(parts[1]) ELSE None,
              field_of_study |-> IF g # 0 /\ Len(parts) > 1 THEN Strip(parts[2])
                                 ELSE None,
              start_year     |-> IF y # 0 /\ Len(year_match) = 2
                                 THEN year_match[1] ELSE None,
              end_year       |-> IF y = 0 THEN None
                                 ELSE IF Len(year_match) = 2 THEN year_match[2]
                                 ELSE year_match[1],
              grade          |-> IF r # 0 THEN te3[r] ELSE None,
              activities     |-> IF a # 0 THEN te4[a] ELSE None]

\* _parse_education_item
ParseEducationItem(doc, item) ==
    EducationChain(SelectSeq(ItemTexts(doc, item),
                             LAMBDA x : Lower(x) # "education"))


(***************************************************************************)
(* Certifications, projects, honors, volunteering                          *)
(***************************************************************************)
\* re.search(word + r'\s+([A-Za-z]+\s+\d{4})', text, re.IGNORECASE) for a
\* lower-case word: <<group(1)>> of the leftmost match, or <<>>
WordThenMonthYear(text, word) ==
    LET StartOfGroup(i) == SkipSpaces(text, i + Len(word))
        hits == {i \in 1..Len(text) :
                    /\ i + Len(word) - 1 <= Len(text)
                    /\ Lower(SubSeq(text, i, i + Len(word) - 1)) = word
                    /\ StartOfGroup(i) > i + Len(word)
                    /\ MonthYearEnd(text, StartOfGroup(i)) # 0}
        first == CHOOSE i \in hits : \A j \in hits : i <= j
    IN  IF hits = {} THEN <<>>
        ELSE <<SubSeq(text, StartOfGroup(first),
                      MonthYearEnd(text, StartOfGroup(first)))>>

RECURSIVE CertificationDatesEither(_, _)
\* A loop that looks for the expiry only in a fragment without an issue
\* date.
CertificationDatesEither(cert, text_elements) ==
    IF text_elements = <<>> THEN cert
    ELSE LET text == Head(text_elements)
             issued_match  == WordThenMonthYear(text, "issued")
             expires_match == WordThenMonthYear(text, "expires")
             seen == AnyContained(Lower(text), {"issued", "expires"})
             next == [cert EXCEPT
                        !.issue_date = IF seen /\ issued_match # <<>>
                                       THEN issued_match[1] ELSE @,
                        !.expiration_date =
                            IF seen /\ issued_match = <<>> /\ expires_match # <<>>
                            THEN expires_match[1] ELSE @]
         IN  CertificationDatesEither(next, Tail(text_elements))

RECURSIVE CertificationDates(_, _)
\* the loop of _parse_certification_item over the fragments behind the
\* name and the organization: every fragment is looked at, a later match
\* overwrites an earlier one
CertificationDates(cert, text_elements) ==
    IF text_elements = <<>> THEN cert
    ELSE LET text == Head(text_elements)
             issued_match  == WordThenMonthYear(text, "issued")
             expires_match == WordThenMonthYear(text, "expires")
             seen == AnyContained(Lower(text), {"issued", "expires"})
             next == [cert EXCEPT
                        !.issue_date = IF seen /\ issued_match # <<>>
                                       THEN issued_match[1] ELSE @,
                        !.expiration_date = IF seen /\ expires_match # <<>>
                                            THEN expires_match[1] ELSE @]
         IN  CertificationDates(next, Tail(text_elements))

\* the rule chain of _parse_certification_item
CertificationChain(text_elements) ==
    LET empty == [name |-> None, issuing_organization |-> None,
                  issue_date |-> None, expiration_date |-> None]
        te1 == Tail(text_elements)
        te2 == IF te1 # <<>> THEN Tail(te1) ELSE te1
    IN  IF text_elements = <<>> THEN empty
        ELSE CertificationDates(
                 [empty EXCEPT !.name = text_elements[1],
                               !.issuing_organization =
                                   IF te1 # <<>> THEN te1[1] ELSE None],
                 te2)

\* _parse_certification_item
ParseCertificationItem(doc, item) == CertificationChain(ItemTexts(doc, item))

\* the rule chain of _parse_project_item
ProjectChain(text_elements) ==
    LET empty == [project_name |-> None, role |-> None, description |-> None,
                  associated_dates |-> None]
        te1 == Tail(text_elements)
        d   == FirstWhere(te1, LooksLikeDate)
        te2 == IF d # 0 THEN RemoveFirst(te1, te1[d]) ELSE te1
        x   == FirstWhere(te2, LAMBDA t : Len(t) > 30)
    IN  IF text_elements = <<>> THEN empty
        ELSE [project_name     |-> text_elements[1],
              role             |-> None,
              description      |-> IF x # 0 THEN te2[x] ELSE None,
              associated_dates |-> IF d # 0 THEN te1[d] ELSE None]

\* _parse_project_item
ParseProjectItem(doc, item) == ProjectChain(ItemTexts(doc, item))

\* An honor chain with the threshold of the project chain.
HonorChainThirty(text_elements) ==
    LET empty == [title |-> None, issuer |-> None, date |-> None,
                  description |-> None]
        te1 == Tail(text_elements)
        te2 == IF te1 # <<>> THEN Tail(te1) ELSE te1
        d   == FirstWhere(te2, LooksLikeDate)
        te3 == IF d # 0 THEN RemoveFirst(te2, te2[d]) ELSE te2
        x   == FirstWhere(te3, LAMBDA t : Len(t) > 30)
    IN  IF text_elements = <<>> THEN empty
        ELSE [title       |-> text_elements[1],
              issuer      |-> IF te1 # <<>> THEN te1[1] ELSE None,
              date        |-> IF d # 0 THEN te2[d] ELSE None,
              description |-> IF x # 0 THEN te3[x] ELSE None]

\* the rule chain of _parse_honor_item
HonorChain(text_elements) ==
    LET empty == [title |-> None, issuer |-> None, date |-> None,
                  description |-> None]
        te1 == Tail(text_elements)
        te2 == IF te1 # <<>> THEN Tail(te1) ELSE te1
        d   == FirstWhere(te2, LooksLikeDate)
        te3 == IF d # 0 THEN RemoveFirst(te2, te2[d]) ELSE te2
        x   == FirstWhere(te3, LAMBDA t : Len(t) > 20)
    IN  IF text_elements = <<>> THEN empty
        ELSE [title       |-> text_elements[1],
              issuer      |-> IF te1 # <<>> THEN te1[1] ELSE None,
              date        |-> IF d # 0 THEN te2[d] ELSE None,
              description |-> IF x # 0 THEN te3[x] ELSE None]

\* _parse_honor_item
ParseHonorItem(doc, item) == HonorChain(ItemTexts(doc, item))

IsCause(text) ==
    \/ Contains(Lower(text), "cause")
    \/ AnyContained(text, {"Education", "Environment", "Health"})

\* the rule chain of _parse_volunteer_item
VolunteerChain(text_elements) ==
    LET empty == [organization |-> None, role |-> None, cause |-> None,
                  date_range |-> None, description |-> None]
        te1 == Tail(text_elements)
        te2 == IF te1 # <<>> THEN Tail(te1) ELSE te1
        d   == FirstWhere(te2, LooksLikeDateOrPresent)
        te3 == IF d # 0 THEN RemoveFirst(te2, te2[d]) ELSE te2
        c   == FirstWhere(te3, IsCause)
        te4 == IF c # 0 THEN RemoveFirst(te3, te3[c]) ELSE te3
        x   == FirstWhere(te4, LAMBDA t : Len(t) > 30)
    IN  IF text_elements = <<>> THEN empty
        ELSE [organization |-> IF te1 # <<>> THEN te1[1] ELSE None,
              role         |-> text_elements[1],
              cause        |-> IF c # 0 THEN te3[c] ELSE None,
              date_range   |-> IF d # 0 THEN te2[d] ELSE None,
              description  |-> IF x # 0 THEN te4[x] ELSE None]

\* _parse_volunteer_item
ParseVolunteerItem(doc, item) == VolunteerChain(ItemTexts(doc, item))

(***************************************************************************)
(* Skills                                                                   *)
(***************************************************************************)
InSeq(x, seq) == \E i \in 1..Len(seq) : seq[i] = x

RECURSIVE AcceptSkillsBothWays(_, _)
\* A loop that also drops a fragment that holds a skill accepted before.
AcceptSkillsBothWays(skills, texts) ==
    IF texts = <<>> THEN skills
    ELSE LET text == Head(texts)
             accept ==
                 /\ 2 < Len(text)
                 /\ Len(text) < 50
                 /\ Lower(text) \notin {"skills", "endorsements"}
                 /\ ~\E i \in 1..Len(skills) :
                        Contains(skills[i], text) \/ Contains(text, skills[i])
         IN  AcceptSkillsBothWays(
                 IF accept THEN Append(skills, text) ELSE skills, Tail(texts))

RECURSIVE AcceptSkills(_, _)
\* the loop of _extract_skills over the texts of the section's elements
AcceptSkills(skills, texts) ==
    IF texts = <<>> THEN skills
    ELSE LET text == Head(texts)
             accept ==
                 /\ 2 < Len(text)
                 /\ Len(text) < 50
                 /\ Lower(text) \notin {"skills", "endorsements"}
                 /\ ~InSeq(text, skills)
                 /\ ~\E i \in 1..Len(skills) : Contains(skills[i], text)
         IN  AcceptSkills(IF accept THEN Append(skills, text) ELSE skills,
                          Tail(texts))

\* the skills list _extract_skills builds from a located section
SkillsOfSection(doc, section) ==
    AcceptSkills(<<>>, NormalizedTexts(doc,
                           FindAll(doc, section, {"span", "div", "li", "p"})))

(***************************************************************************)
(* Basic profile                                                            *)
(***************************************************************************)
\* re.search(r'\b(area|region|country)\b', text)
HasRegionWord(text) ==
    \E w \in {"area", "region", "country"} :
        \E i \in 1..(Len(text) - Len(w) + 1) :
            /\ SubSeq(text, i, i + Len(w) - 1) = w
            /\ i = 1 \/ ~IsWord(Ch(text, i - 1))
            /\ i + Len(w) - 1 = Len(text) \/ ~IsWord(Ch(text, i + Len(w)))

\* re.search(r'^[\w\s,]+,[\w\s,]+$', text)
IsCommaSeparated(text) ==
    LET body == IF Len(text) > 0 /\ Ch(text, Len(text)) = "\n"
                THEN {text, SubSeq(text, 1, Len(text) - 1)} ELSE {text}
    IN  \E b \in body :
            /\ \A i \in 1..Len(b) :
                  IsWord(Ch(b, i)) \/ IsSpace(Ch(b, i)) \/ Ch(b, i) = ","
            /\ \E i \in 2..(Len(b) - 1) : Ch(b, i) = ","

\* the full_name loop of _extract_basic_profile
FullNameOf(doc) ==
    LET names == NormalizedTexts(doc, FindAll(doc, 0, {"h1"}))
        n == FirstWhere(names, LAMBDA t : Len(t) < 100)
    IN  IF n # 0 THEN names[n] ELSE None

\* the headline loop of _extract_basic_profile
HeadlineOf(doc, full_name) ==
    LET h1_tags == FindAll(doc, 0, {"h1"})
        parent  == FindParent(doc, h1_tags[1], {"div", "section"}, {})
        texts   == NormalizedTexts(doc, FindAll(doc, parent, {"div", "p", "span"}))
        h == FirstWhere(texts, LAMBDA t :
                 /\ 10 < Len(t)
                 /\ Len(t) < 200
                 /\ t # full_name
                 /\ ~HasRegionWord(Lower(t)))
    IN  IF h1_tags # <<>> /\ parent # NoNode /\ h # 0 THEN texts[h] ELSE None

\* the location loop of _extract_basic_profile
LocationOf(doc) ==
    LET texts == NormalizedTexts(doc, FindAll(doc, 0, {"span", "div", "p"}))
        l == FirstWhere(texts, LAMBDA t :
                 /\ AnyContained(Lower(t), {"area", "location", ","})
                 /\ IsCommaSeparated(t)
                 /\ Len(t) < 100)
    IN  IF l # 0 THEN texts[l] ELSE None

\* max(paragraphs, key=len): the first of the longest entries
LongestOf(paragraphs) ==
    paragraphs[CHOOSE i \in 1..Len(paragraphs) :
                  /\ \A j \in 1..Len(paragraphs) :
                        Len(paragraphs[j]) <= Len(paragraphs[i])
                  /\ \A j \in 1..(i - 1) :
                        Len(paragraphs[j]) < Len(paragraphs[i])]

\* A summary that takes fragments of any length.
SummaryOfAnyLength(doc) ==
    LET about_section == FindSectionByHeader(doc, SECTION_HEADERS.about)
        paragraphs ==
            SelectSeq(NormalizedTexts(doc, FindAll(doc, about_section,
                                                   {"p", "div", "span"})),
                      LAMBDA t : ~InSeq(Lower(t), SECTION_HEADERS.about))
    IN  IF about_section # NoNode /\ paragraphs # <<>>
        THEN LongestOf(paragraphs) ELSE None

\* the About part of _extract_basic_profile
SummaryOf(doc) ==
    LET about_section == FindSectionByHeader(doc, SECTION_HEADERS.about)
        paragraphs ==
            SelectSeq(NormalizedTexts(doc, FindAll(doc, about_section,
                                                   {"p", "div", "span"})),
                      LAMBDA t : /\ ~InSeq(Lower(t), SECTION_HEADERS.about)
                                 /\ Len(t) > 20)
    IN  IF about_section # NoNode /\ paragraphs # <<>>
        THEN LongestOf(paragraphs) ELSE None

(***************************************************************************)
(* SpecEducationItem: the education rule chain on one item's fragments     *)
(***************************************************************************)
RECURSIVE SeqsOver(_, _)
\* every sequence of at most n entries drawn from the set pieces
SeqsOver(pieces, n) ==
    IF n = 0 THEN {<<>>}
    ELSE LET shorter == SeqsOver(pieces, n - 1)
         IN  shorter \cup {Append(q, p) : q \in shorter, p \in pieces}

MaxEducationFragments == 3

EducationPieces ==
    {"2015 - 2019", "Graduated 2020", "no years here", "2001, 2002, 2003",
     "Bachelor of Science, Physics", "GPA 3.9 of 4", "Batch2015 to 2019x",
     "1899 until 2100"}

EducationInputs ==
    {<<>>} \cup {<<"State University">> \o q :
                    q \in SeqsOver(EducationPieces, MaxEducationFragments)}

InitEducationItem ==
    /\ IdleExtractor
    /\ pc = "call"
    /\ arg \in EducationInputs
    /\ ret = None

CallEducationChain ==
    /\ pc = "call"
    /\ ret' = EducationChain(arg)
    /\ pc' = "return"
    /\ UNCHANGED <<soup, profile_data, exc, arg, web>>

NextEducationItem == CallEducationChain

SpecEducationItem == InitEducationItem /\ [][NextEducationItem]_vars

\* the 4-digit tokens in 1900-2099 of a text, whole
YearTokens(text) ==
    LET at == YearPositions(text)
    IN  [k \in 1..Len(at) |-> SubSeq(text, at[k], at[k] + 3)]

\* C2: the first fragment, among those left after the institution and the
\* degree fragment, that holds exactly one or two year tokens sets end_year
\* (and, with two, start_year) to those whole 4-digit tokens; when no
\* fragment holds one or two tokens both fields stay unset.
YearPairGrammar ==
    (pc = "return" /\ arg # <<>>) =>
        LET te1  == Tail(arg)
            g    == FirstWhere(te1, IsDegree)
            rest == IF g # 0 THEN RemoveFirst(te1, te1[g]) ELSE te1
            f    == FirstWhere(rest, LAMBDA x : Len(YearTokens(x)) \in {1, 2})
            toks == YearTokens(rest[f])
        IN  IF f = 0 THEN ret.start_year = None /\ ret.end_year = None
            ELSE IF Len(toks) = 2
                 THEN ret.start_year = toks[1] /\ ret.end_year = toks[2]
                 ELSE ret.start_year = None /\ ret.end_year = toks[1]


(***************************************************************************)
(* The extractors: each yields the profile data it leaves behind and the   *)
(* exception it ends with (None when it returns)                           *)
(***************************************************************************)
\* the truth value Python gives an optional string
Truthy(v) == v # None /\ v # ""

\* [parse(item) for item in list_items]
ParseAll(doc, list_items, Parse(_, _)) ==
    [k \in 1..Len(list_items) |-> Parse(doc, list_items[k])]

Returned(data) == [data |-> data, exc |-> None]

Raised(data, exception) == [data |-> data, exc |-> exception]

\* A bug that takes the first h1's parent without looking whether there is
\* an h1: h1_tags[0] raises on a document without one.
ExtractBasicProfileUnguarded(doc, data) ==
    IF FindAll(doc, 0, {"h1"}) = <<>> THEN Raised(data, "IndexError")
    ELSE Returned([data EXCEPT
             !.basic_profile.full_name = FullNameOf(doc),
             !.basic_profile.headline = HeadlineOf(doc, FullNameOf(doc)),
             !.basic_profile.location = LocationOf(doc),
             !.basic_profile.profile_summary = SummaryOf(doc)])

\* _extract_basic_profile: a field no loop assigns keeps its value
ExtractBasicProfile(doc, data) ==
    LET Keep(new, old) == IF new # None THEN new ELSE old
        full_name == Keep(FullNameOf(doc), data.basic_profile.full_name)
    IN  Returned([data EXCEPT
            !.basic_profile.full_name = full_name,
            !.basic_profile.headline = Keep(HeadlineOf(doc, full_name), @),
            !.basic_profile.location = Keep(LocationOf(doc), @),
            !.basic_profile.profile_summary = Keep(SummaryOf(doc), @)])

\* the current-company loop of _extract_experience
CurrentCompany(experience, old) ==
    LET p == FirstWhere(experience, LAMBDA e :
                 Truthy(e.end_date) /\ Lower(e.end_date) = "present")
    IN  IF p # 0 THEN experience[p].company_name ELSE old

\* A bug that derives the current company from every parsed candidate,
\* accepted or not.
ExtractExperienceAllCandidates(doc, data) ==
    LET Store(parsed) ==
            Returned([data EXCEPT
                !.experience =
                    @ \o SelectSeq(parsed, LAMBDA e : Truthy(e.job_title)),
                !.basic_profile.current_company = CurrentCompany(parsed, @)])
        In(experience_section) ==
            IF experience_section = NoNode THEN Returned(data)
            ELSE Store(ParseAll(doc,
                                GetListItemsFromSection(doc, experience_section),
                                ParseExperienceItem))
    IN  In(FindSectionByHeader(doc, SECTION_HEADERS.experience))

\* _extract_experience
ExtractExperience(doc, data) ==
    LET Store(experience) ==
            Returned([data EXCEPT
                !.experience = experience,
                !.basic_profile.current_company = CurrentCompany(experience, @)])
        Accepted(parsed) ==
            Store(data.experience
                      \o SelectSeq(parsed, LAMBDA e : Truthy(e.job_title)))
        In(experience_section) ==
            IF experience_section = NoNode THEN Returned(data)
            ELSE Accepted(ParseAll(doc,
                                   GetListItemsFromSection(doc, experience_section),
                                   ParseExperienceItem))
    IN  In(FindSectionByHeader(doc, SECTION_HEADERS.experience))

\* A bug that forgets the early return: find_all on None raises.
ExtractEducationNoReturn(doc, data) ==
    LET education_section ==
            FindSectionByHeader(doc, SECTION_HEADERS.education)
        parsed == ParseAll(doc, GetListItemsFromSection(doc, education_section),
                           ParseEducationItem)
    IN  IF education_section = NoNode THEN Raised(data, "AttributeError")
        ELSE Returned([data EXCEPT !.education =
                 @ \o SelectSeq(parsed, LAMBDA e : Truthy(e.institution_name))])

\* _extract_education
ExtractEducation(doc, data) ==
    LET education_section ==
            FindSectionByHeader(doc, SECTION_HEADERS.education)
        parsed == ParseAll(doc, GetListItemsFromSection(doc, education_section),
                           ParseEducationItem)
    IN  IF education_section = NoNode THEN Returned(data)
        ELSE Returned([data EXCEPT !.education =
                 @ \o SelectSeq(parsed, LAMBDA e : Truthy(e.institution_name))])

\* _extract_skills
ExtractSkills(doc, data) ==
    LET skills_section == FindSectionByHeader(doc, SECTION_HEADERS.skills)
    IN  IF skills_section = NoNode THEN Returned(data)
        ELSE Returned([data EXCEPT
                 !.skills = SkillsOfSection(doc, skills_section)])

\* _extract_certifications
ExtractCertifications(doc, data) ==
    LET cert_section ==
            FindSectionByHeader(doc, SECTION_HEADERS.certifications)
        parsed == ParseAll(doc, GetListItemsFromSection(doc, cert_section),
                           ParseCertificationItem)
    IN  IF cert_section = NoNode THEN Returned(data)
        ELSE Returned([data EXCEPT !.certifications =
                 @ \o SelectSeq(parsed, LAMBDA c : Truthy(c.name))])

\* _extract_projects
ExtractProjects(doc, data) ==
    LET projects_section ==
            FindSectionByHeader(doc, SECTION_HEADERS.projects)
        parsed == ParseAll(doc, GetListItemsFromSection(doc, projects_section),
                           ParseProjectItem)
    IN  IF projects_section = NoNode THEN Returned(data)
        ELSE Returned([data EXCEPT !.projects =
                 @ \o SelectSeq(parsed, LAMBDA q : Truthy(q.project_name))])

\* _extract_honors_awards
ExtractHonorsAwards(doc, data) ==
    LET honors_section == FindSectionByHeader(doc, SECTION_HEADERS.honors)
        parsed == ParseAll(doc, GetListItemsFromSection(doc, honors_section),
                           ParseHonorItem)
    IN  IF honors_section = NoNode THEN Returned(data)
        ELSE Returned([data EXCEPT !.honors_awards =
                 @ \o SelectSeq(parsed, LAMBDA h : Truthy(h.title))])

\* A bug that accepts every parsed volunteering candidate.
ExtractVolunteeringUngated(doc, data) ==
    LET volunteering_section ==
            FindSectionByHeader(doc, SECTION_HEADERS.volunteering)
        parsed == ParseAll(doc, GetListItemsFromSection(doc, volunteering_section),
                           ParseVolunteerItem)
    IN  IF volunteering_section = NoNode THEN Returned(data)
        ELSE Returned([data EXCEPT !.volunteering = @ \o parsed])

\* _extract_volunteering
ExtractVolunteering(doc, data) ==
    LET volunteering_section ==
            FindSectionByHeader(doc, SECTION_HEADERS.volunteering)
        parsed == ParseAll(doc, GetListItemsFromSection(doc, volunteering_section),
                           ParseVolunteerItem)
    IN  IF volunteering_section = NoNode THEN Returned(data)
        ELSE Returned([data EXCEPT !.volunteering =
                 @ \o SelectSeq(parsed, LAMBDA v : Truthy(v.organization))])


(***************************************************************************)
(* Documents of the check.  A document is a sequence of blocks, each a     *)
(* subtree below the document; at is the position of a block's first node. *)
(***************************************************************************)
\* <name>text</name>
TextElem(at, parent, name, text) == <<Elem(name, parent, {}), Txt(at, text)>>

RECURSIVE Spans(_, _, _)
\* one span for each fragment, below parent
Spans(at, parent, fragments) ==
    IF fragments = <<>> THEN <<>>
    ELSE TextElem(at, parent, "span", Head(fragments))
         \o Spans(at + 2, parent, Tail(fragments))

\* one sub-block: an element holding a span for each fragment, or, without
\* fragments, nothing but a string of its own
ItemNodes(at, parent, name, fragments) ==
    IF fragments = <<>> THEN TextElem(at, parent, name, "see more")
    ELSE <<Elem(name, parent, {})>> \o Spans(at + 1, at, fragments)

RECURSIVE ItemsNodes(_, _, _, _)
ItemsNodes(at, parent, name, items) ==
    IF items = <<>> THEN <<>>
    ELSE LET first == ItemNodes(at, parent, name, Head(items))
         IN  first \o ItemsNodes(at + Len(first), parent, name, Tail(items))

\* <tag attrs><h2>header</h2><ul><li>...</li>...</ul></tag>, or with
\* layout "div" the repeated-div layout <div><div>...</div>...</div>
SectionNodes(at, b) ==
    <<Elem(b.tag, 0, b.attrs)>>
    \o TextElem(at + 1, at, "h2", b.header)
    \o <<Elem(IF b.layout = "li" THEN "ul" ELSE "div", at, {})>>
    \o ItemsNodes(at + 4, at + 3, b.layout, b.items)

\* the top card: <div><h1>name</h1><p>headline</p><span>place</span></div>
CardNodes(at, b) ==
    <<Elem("div", 0, {})>>
    \o TextElem(at + 1, at, "h1", b.name)
    \o TextElem(at + 3, at, "p", b.headline)
    \o TextElem(at + 5, at, "span", b.place)

BlockNodes(at, b) ==
    IF b.kind = "card" THEN CardNodes(at, b) ELSE SectionNodes(at, b)

RECURSIVE DocumentOf(_, _)
\* the nodes of the blocks, one block after the other, behind `before`
DocumentOf(before, blocks) ==
    IF blocks = <<>> THEN before
    ELSE DocumentOf(before \o BlockNodes(Len(before) + 1, Head(blocks)),
                    Tail(blocks))

Section(tag, attrs, header, layout, items) ==
    [kind |-> "section", tag |-> tag, attrs |-> attrs, header |-> header,
     layout |-> layout, items |-> items]

\* the two sub-blocks of the end-to-end scenario of the spec
ScenarioItems ==
    << <<"Software Engineer", "Acme Corp", "Full-time",
         "Jan 2020 - Present ^ 3 yrs", "Remote">>,
       <<"Intern", "Beta Inc", "Jun 2018 - Aug 2018">> >>

\* a candidate without a title whose end date is Present, then records of
\* which the second is the first that is current
CareerItems ==
    << <<"CEO", "IBM", "2019 - Present ^ 5 yrs">>,
       <<"Engineer", "Initech", "Contract", "Mar 2015 - Jan 2018",
         "Austin, Texas">>,
       <<"Advisor", "Hooli", "2021 ~ present ^ 2 yrs">>,
       <<"Founder", "Pied Piper", "2022 - Present">> >>

Marked == {"recursive", "class"}
Plain  == {"class"}

Library ==
    << [kind |-> "card", name |-> "  Ada \n Lovelace ",
        headline |-> "Analyst of engines at Babbage and Co",
        place |-> "London, England"],
       Section("section", Marked, "About", "li",
               << <<"I build analytical engines for a living">>,
                  <<"Mathematics and poetry, in equal measure, every day">> >>),
       Section("section", Plain, "Experience", "li", ScenarioItems),
       Section("section", Marked, "\n  Experience  \n", "li", ScenarioItems),
       Section("div", Marked, "Experience", "li", CareerItems),
       Section("div", Marked, "Experience", "div",
               << <<"Consultant", "Globex", "2010 - 2012">>,
                  <<"Clerk", "Soylent", "Part-time">> >>),
       Section("section", Marked, "Work Experience", "li",
               << <<"Teacher", "Springfield Elementary", "1999 - 2004">> >>),
       Section("section", Marked, "Education", "li",
               << <<"State University", "Bachelor of Science, Physics",
                    "2015 - 2019", "GPA 3.9 of 4">>,
                  <<>>,
                  <<"Education">> >>),
       Section("div", Plain, "Education", "li",
               << <<"Night School", "Diploma", "Graduated 2020">> >>),
       Section("section", Marked, "Skills", "li",
               << <<"Python">>, <<"Python Programming">>, <<"SQL">> >>),
       Section("section", Marked, "Licenses & Certifications", "li",
               << <<"Cloud Architect", "Acme Cloud",
                    "Issued Jan 2021 ^ Expires Jan 2024">>,
                  <<>> >>),
       Section("section", Marked, "Projects", "li",
               << <<"Difference Engine", "Jan 2019 - Mar 2020",
                    "A mechanical calculator built from brass gears">>,
                  <<>> >>),
       Section("section", Marked, "Honors & Awards", "li",
               << <<"Medal of Merit", "Royal Society", "Jun 2020",
                    "For services to computing">>,
                  <<>> >>),
       Section("section", Marked, "Volunteering", "li",
               << <<"Helper">>,
                  <<"Tutor", "Code Club", "2018 - Present", "Education",
                    "Weekly lessons for school children">> >>) >>

MaxBlocks == 2

\* the blocks of the library at the positions of a set, in library order
BlocksAt(positions) ==
    LET at == Ascending(positions)
    IN  [k \in 1..Len(at) |-> Library[at[k]]]

\* every document of at most MaxBlocks blocks of the library; the empty
\* choice is the document without any node
Documents ==
    {DocumentOf(<<>>, BlocksAt(c)) :
        c \in {c \in SUBSET (1..Len(Library)) : Cardinality(c) <= MaxBlocks}}

(***************************************************************************)
(* Spec: one run of extract() over a document                              *)
(***************************************************************************)
Init ==
    /\ soup \in Documents
    /\ profile_data = InitializeStructure
    /\ pc = "basic_profile"
    /\ exc = None
    /\ arg = None
    /\ ret = None
    /\ NoScraper

\* A bug that decomposes what it has read: the last node leaves the tree.
TreeAfterDecompose(doc) ==
    IF doc = <<>> THEN doc ELSE SubSeq(doc, 1, Len(doc) - 1)

\* A bug that clears the elements it has read: every string becomes empty.
TreeAfterClear(doc) ==
    [j \in 1..Len(doc) |-> [doc[j] EXCEPT !.string = ""]]

\* what a method of the extractor leaves of the parsed tree: the calls it
\* makes on the tree (find_all, find_parent, get_text, .children) read it,
\* and no statement assigns to a node, an attribute or a string
TreeAfterReads(doc) == doc

\* `return self.profile_data`: the results returned so far and this one
Returns(returned, data) ==
    IF returned = None THEN <<data>> ELSE Append(returned, data)

\* one call of extract(): the extractor `step`, then `next` unless it raised;
\* behind the last extractor extract() returns self.profile_data
Step(step, outcome, next) ==
    /\ pc = step
    /\ profile_data' = outcome.data
    /\ exc' = outcome.exc
    /\ pc' = IF outcome.exc = None THEN next ELSE "raised"
    /\ soup' = TreeAfterReads(soup)
    /\ ret' = IF outcome.exc = None /\ next = "done"
              THEN Returns(ret, outcome.data) ELSE ret
    /\ UNCHANGED <<arg, web>>

DoBasicProfile ==
    Step("basic_profile", ExtractBasicProfile(soup, profile_data), "experience")

DoExperience ==
    Step("experience", ExtractExperience(soup, profile_data), "education")

DoEducation ==
    Step("education", ExtractEducation(soup, profile_data), "skills")

DoSkills ==
    Step("skills", ExtractSkills(soup, profile_data), "certifications")

DoCertifications ==
    Step("certifications", ExtractCertifications(soup, profile_data), "projects")

DoProjects ==
    Step("projects", ExtractProjects(soup, profile_data), "honors_awards")

DoHonorsAwards ==
    Step("honors_awards", ExtractHonorsAwards(soup, profile_data), "volunteering")

DoVolunteering ==
    Step("volunteering", ExtractVolunteering(soup, profile_data), "done")

Next ==
    \/ DoBasicProfile
    \/ DoExperience
    \/ DoEducation
    \/ DoSkills
    \/ DoCertifications
    \/ DoProjects
    \/ DoHonorsAwards
    \/ DoVolunteering

Spec == Init /\ [][Next]_vars

(***************************************************************************)
(* SpecRerun: extract() called again on the extractor that has returned    *)
(***************************************************************************)
MaxExtractCalls == 2

\* the documents of one block of the library
RerunDocuments ==
    {DocumentOf(<<>>, <<Library[k]>>) : k \in 1..Len(Library)}

InitRerun ==
    /\ soup \in RerunDocuments
    /\ profile_data = InitializeStructure
    /\ pc = "basic_profile"
    /\ exc = None
    /\ arg = None
    /\ ret = None
    /\ NoScraper

\* the caller calls extract() once more: the same object, the same
\* self.profile_data, the first extractor again
ExtractAgain ==
    /\ pc = "done"
    /\ Len(ret) < MaxExtractCalls
    /\ pc' = "basic_profile"
    /\ UNCHANGED <<soup, profile_data, exc, arg, ret, web>>

NextRerun == Next \/ ExtractAgain

SpecRerun == InitRerun /\ [][NextRerun]_vars


(***************************************************************************)
(* Claims about a run of extract()                                         *)
(***************************************************************************)
\* the elements _find_section_by_header scans that match a keyword
HeaderMatches(doc, header_keywords) ==
    {e \in 1..Len(doc) :
        doc[e].name \in HeaderTags /\ MatchesHeader(doc, e, header_keywords)}

\* C1: after skills extraction the skills list holds no two distinct
\* entries of which one is a substring of the other.
SkillsNeverNested ==
    \A i, j \in 1..Len(profile_data.skills) :
        (i # j /\ profile_data.skills[i] # profile_data.skills[j])
            => ~Contains(profile_data.skills[i], profile_data.skills[j])

\* C3: for the first scanned element that matches a keyword and has an
\* ancestor of kind section or div, the result of _find_section_by_header
\* is the nearest such ancestor, whatever attributes that ancestor carries.
FindSectionNearestContainer ==
    \A name \in DOMAIN SECTION_HEADERS :
        LET under == {e \in HeaderMatches(soup, SECTION_HEADERS[name]) :
                         FindParent(soup, e, {"section", "div"}, {}) # NoNode}
            first == CHOOSE e \in under : \A f \in under : e <= f
        IN  under # {} =>
                FindSectionByHeader(soup, SECTION_HEADERS[name])
                    = FindParent(soup, first, {"section", "div"}, {})

\* C4: every record of every result list has its identity field set.
IdentityFieldsSet ==
    /\ \A i \in 1..Len(profile_data.experience) :
          Truthy(profile_data.experience[i].job_title)
    /\ \A i \in 1..Len(profile_data.education) :
          Truthy(profile_data.education[i].institution_name)
    /\ \A i \in 1..Len(profile_data.certifications) :
          Truthy(profile_data.certifications[i].name)
    /\ \A i \in 1..Len(profile_data.projects) :
          Truthy(profile_data.projects[i].project_name)
    /\ \A i \in 1..Len(profile_data.honors_awards) :
          Truthy(profile_data.honors_awards[i].title)
    /\ \A i \in 1..Len(profile_data.volunteering) :
          Truthy(profile_data.volunteering[i].organization)

\* a finished run that accepted a volunteering record and dropped a
\* candidate whose organization is unset
IdentityWitness ==
    LET section == FindSectionByHeader(soup, SECTION_HEADERS.volunteering)
        items == GetListItemsFromSection(soup, section)
    IN  /\ pc = "done"
        /\ section # NoNode
        /\ \E k \in 1..Len(items) :
              ~Truthy(ParseVolunteerItem(soup, items[k]).organization)
        /\ Len(profile_data.volunteering) > 0
        /\ Len(profile_data.volunteering) < Len(items)

\* the documents of the end-to-end scenario: nothing but an Experience
\* section whose list holds the two items of the scenario
IsScenarioDocument(doc) ==
    \E k \in 1..Len(Library) :
        /\ Library[k].kind = "section"
        /\ Lower(NormalizeText(Library[k].header)) = "experience"
        /\ Library[k].layout = "li"
        /\ Library[k].items = ScenarioItems
        /\ doc = DocumentOf(<<>>, <<Library[k]>>)

\* C5: on a document of the end-to-end scenario extract() yields the two
\* experience records of the spec, in order, and current_company Acme Corp.
ScenarioResult ==
    (pc = "done" /\ IsScenarioDocument(soup)) =>
        /\ Len(profile_data.experience) = 2
        /\ LET first  == profile_data.experience[1]
               second == profile_data.experience[2]
           IN  /\ first.job_title = "Software Engineer"
               /\ first.company_name = "Acme Corp"
               /\ first.employment_type = "Full-time"
               /\ first.start_date = "Jan 2020"
               /\ first.end_date = "Present"
               /\ first.duration = "3 yrs"
               /\ first.location = "Remote"
               /\ second.job_title = "Intern"
               /\ second.company_name = "Beta Inc"
               /\ second.start_date = "Jun 2018"
               /\ second.end_date = "Aug 2018"
               /\ second.employment_type = None
               /\ second.location = None
        /\ profile_data.basic_profile.current_company = "Acme Corp"

\* C6: once the experience step is over, current_company is the company of
\* the first record of the experience list whose end date is "present" in
\* any case, and is unset when the list holds no such record.
CurrentCompanyFromAccepted ==
    pc \notin {"basic_profile", "experience"} =>
        LET experience == profile_data.experience
            current == {i \in 1..Len(experience) :
                           /\ experience[i].end_date # None
                           /\ Lower(experience[i].end_date) = "present"}
        IN  profile_data.basic_profile.current_company =
                IF current = {} THEN None
                ELSE experience[CHOOSE i \in current :
                                    \A j \in current : i <= j].company_name

\* a run over a document whose first current record is not the first
\* record, spells "present" in lower case, and comes behind a rejected
\* candidate that is current
CurrentCompanyWitness ==
    /\ pc = "done"
    /\ LET section == FindSectionByHeader(soup, SECTION_HEADERS.experience)
           items == GetListItemsFromSection(soup, section)
       IN  /\ section # NoNode
           /\ ~Truthy(ParseExperienceItem(soup, items[1]).job_title)
           /\ ParseExperienceItem(soup, items[1]).end_date = "Present"
    /\ profile_data.basic_profile.current_company = "Hooli"
    /\ Len(profile_data.experience) = 3
    /\ profile_data.experience[1].end_date = "Jan 2018"
    /\ profile_data.experience[2].end_date = "present"

\* the steps of extract() that locate a section: the step, the keywords it
\* looks for, and the record group it fills
SectionSteps ==
    {[step |-> "experience",     headers |-> "experience",     group |-> "experience"],
     [step |-> "education",      headers |-> "education",      group |-> "education"],
     [step |-> "skills",         headers |-> "skills",         group |-> "skills"],
     [step |-> "certifications", headers |-> "certifications", group |-> "certifications"],
     [step |-> "projects",       headers |-> "projects",       group |-> "projects"],
     [step |-> "honors_awards",  headers |-> "honors",         group |-> "honors_awards"],
     [step |-> "volunteering",   headers |-> "volunteering",   group |-> "volunteering"]}

\* C7: a step whose section has no matching element finds no section,
\* returns without an exception, leaves its record group empty and changes
\* nothing else of the result; without an About header the summary stays
\* unset.
SectionNotFoundIsQuiet ==
    [][/\ \A s \in SectionSteps :
             (pc = s.step /\ HeaderMatches(soup, SECTION_HEADERS[s.headers]) = {})
                 => /\ FindSectionByHeader(soup, SECTION_HEADERS[s.headers]) = NoNode
                    /\ exc' = None
                    /\ pc' # "raised"
                    /\ profile_data'[s.group] = <<>>
                    /\ profile_data' = profile_data
       /\ (pc = "basic_profile" /\ HeaderMatches(soup, SECTION_HEADERS.about) = {})
             => /\ exc' = None
                /\ pc' # "raised"
                /\ profile_data'.basic_profile.profile_summary = None
                /\ \A s \in SectionSteps :
                      profile_data'[s.group] = profile_data[s.group]
      ]_vars

\* the education step is over on a document without an Education header,
\* and the experience records found before it are still there
SectionNotFoundWitness ==
    /\ pc = "skills"
    /\ soup # <<>>
    /\ HeaderMatches(soup, SECTION_HEADERS.education) = {}
    /\ profile_data.education = <<>>
    /\ Len(profile_data.experience) > 0

\* C8: no run ends with an exception, and on the document without nodes
\* the result stays the initial structure through the whole run.
EmptyDocumentEmptyResult ==
    /\ exc = None
    /\ pc # "raised"
    /\ soup = <<>> => profile_data = InitializeStructure

\* the run over the document without nodes has returned
EmptyDocumentWitness ==
    /\ soup = <<>>
    /\ pc = "done"
    /\ profile_data = InitializeStructure



(***************************************************************************)
(* The rule chains once more, now keeping track of where in the item's     *)
(* fragment sequence each entry of the working list text_elements comes    *)
(* from: rest is that list as a sequence of positions of texts.            *)
(***************************************************************************)
\* the position of the first entry of the list that satisfies P, 0 if none
FirstIn(texts, rest, P(_)) ==
    LET hits == {k \in 1..Len(rest) : P(texts[rest[k]])}
    IN  IF hits = {} THEN 0
        ELSE rest[CHOOSE k \in hits : \A m \in hits : k <= m]

\* text_elements.remove(text) for the text at position p: list.remove
\* drops the first entry that equals the text, wherever it comes from
WithoutText(texts, rest, p) ==
    LET same == {k \in 1..Len(rest) : texts[rest[k]] = texts[p]}
        k    == CHOOSE x \in same : \A y \in same : x <= y
    IN  SubSeq(rest, 1, k - 1) \o SubSeq(rest, k + 1, Len(rest))

\* `for text in text_elements[:]: if P(text): ...; text_elements.remove(text);
\* break`: the position consumed, 0 for none, and the list that is left
TakeAt(texts, rest, P(_)) ==
    LET Taken(p) == [at |-> p,
                     rest |-> IF p = 0 THEN rest ELSE WithoutText(texts, rest, p)]
    IN  Taken(FirstIn(texts, rest, P))

\* `x = text_elements[0]; text_elements = text_elements[1:]` on a list that
\* may be empty
TakeHeadAt(rest) ==
    IF rest # <<>> THEN [at |-> rest[1], rest |-> Tail(rest)]
    ELSE [at |-> 0, rest |-> rest]

\* the title loop: `text_elements = text_elements[i+1:]`
TakeTitleAt(texts, rest) ==
    LET hits == {k \in 1..Len(rest) : IsTitleCandidate(texts[rest[k]])}
        Cut(k) == [at |-> rest[k], rest |-> SubSeq(rest, k + 1, Len(rest))]
    IN  IF hits = {} THEN [at |-> 0, rest |-> rest]
        ELSE Cut(CHOOSE k \in hits : \A m \in hits : k <= m)

\* the list text_elements before the first step
AllPositions(texts) == [k \in 1..Len(texts) |-> k]

\* _parse_experience_item: the position each step consumes (0: none), and
\* for the description the positions of the fragments appended
ExperienceConsumed(text_elements) ==
    LET Positions(title, company, employment, date, location) ==
            [job_title       |-> title.at,
             company_name    |-> company.at,
             employment_type |-> employment.at,
             date            |-> date.at,
             location        |-> location.at,
             description     |->
                 SelectSeq(location.rest,
                           LAMBDA p : Len(text_elements[p]) > 50)]
        AfterDate(title, company, employment, date) ==
            Positions(title, company, employment, date,
                      TakeAt(text_elements, date.rest, IsLocation))
        AfterEmployment(title, company, employment) ==
            AfterDate(title, company, employment,
                      TakeAt(text_elements, employment.rest, IsDateRange))
        AfterCompany(title, company) ==
            AfterEmployment(title, company,
                            TakeAt(text_elements, company.rest,
                                   IsEmploymentType))
        AfterTitle(title) == AfterCompany(title, TakeHeadAt(title.rest))
    IN  AfterTitle(TakeTitleAt(text_elements, AllPositions(text_elements)))

\* _parse_education_item, on the fragments that are not "education"
EducationConsumed(text_elements) ==
    LET Positions(institution, degree, years, grade) ==
            [institution_name |-> institution.at,
             degree           |-> degree.at,
             years            |-> years.at,
             grade            |-> grade.at,
             activities       |-> FirstIn(text_elements, grade.rest,
                                          IsActivities)]
        AfterYears(institution, degree, years) ==
            Positions(institution, degree, years,
                      TakeAt(text_elements, years.rest, IsGrade))
        AfterDegree(institution, degree) ==
            AfterYears(institution, degree,
                       TakeAt(text_elements, degree.rest, HasYears))
        AfterInstitution(institution) ==
            AfterDegree(institution,
                        TakeAt(text_elements, institution.rest, IsDegree))
    IN  AfterInstitution(TakeHeadAt(AllPositions(text_elements)))

\* the test of the loop of _parse_certification_item that lets a fragment
\* set a date
GivesCertificationDate(text) ==
    /\ AnyContained(Lower(text), {"issued", "expires"})
    /\ \/ WordThenMonthYear(text, "issued") # <<>>
       \/ WordThenMonthYear(text, "expires") # <<>>

\* _parse_certification_item; the loop over the fragments behind the name
\* and the organization removes nothing and is the last step
CertificationConsumed(text_elements) ==
    LET Positions(name, organization) ==
            [name                 |-> name.at,
             issuing_organization |-> organization.at,
             dates |-> SelectSeq(organization.rest,
                           LAMBDA p : GivesCertificationDate(text_elements[p]))]
        AfterName(name) == Positions(name, TakeHeadAt(name.rest))
    IN  AfterName(TakeHeadAt(AllPositions(text_elements)))

\* _parse_project_item
ProjectConsumed(text_elements) ==
    LET Positions(name, dates) ==
            [project_name     |-> name.at,
             associated_dates |-> dates.at,
             description      |-> FirstIn(text_elements, dates.rest,
                                          LAMBDA t : Len(t) > 30)]
        AfterName(name) ==
            Positions(name, TakeAt(text_elements, name.rest, LooksLikeDate))
    IN  AfterName(TakeHeadAt(AllPositions(text_elements)))

\* _parse_honor_item
HonorConsumed(text_elements) ==
    LET Positions(title, issuer, date) ==
            [title       |-> title.at,
             issuer      |-> issuer.at,
             date        |-> date.at,
             description |-> FirstIn(text_elements, date.rest,
                                     LAMBDA t : Len(t) > 20)]
        AfterIssuer(title, issuer) ==
            Positions(title, issuer,
                      TakeAt(text_elements, issuer.rest, LooksLikeDate))
        AfterTitle(title) == AfterIssuer(title, TakeHeadAt(title.rest))
    IN  AfterTitle(TakeHeadAt(AllPositions(text_elements)))

\* _parse_volunteer_item
VolunteerConsumed(text_elements) ==
    LET Positions(role, organization, date_range, cause) ==
            [role         |-> role.at,
             organization |-> organization.at,
             date_range   |-> date_range.at,
             cause        |-> cause.at,
             description  |-> FirstIn(text_elements, cause.rest,
                                      LAMBDA t : Len(t) > 30)]
        AfterDate(role, organization, date_range) ==
            Positions(role, organization, date_range,
                      TakeAt(text_elements, date_range.rest, IsCause))
        AfterOrganization(role, organization) ==
            AfterDate(role, organization,
                      TakeAt(text_elements, organization.rest,
                             LooksLikeDateOrPresent))
        AfterRole(role) == AfterOrganization(role, TakeHeadAt(role.rest))
    IN  AfterRole(TakeHeadAt(AllPositions(text_elements)))

(***************************************************************************)
(* SpecExperienceItem: _parse_experience_item called on one sub-block,     *)
(* more than once                                                          *)
(***************************************************************************)
MaxExperienceFragments == 4
MaxParseCalls == 2

ExperiencePieces ==
    {"QA", "My Experience", "Full-time", "Contract 2019 - 2020 ^ 1 yr",
     "Contract, remote",
     "Built and operated the analytical engines of the whole company"}

ExperienceInputs == SeqsOver(ExperiencePieces, MaxExperienceFragments)

\* <li><span>fragment</span>...</li>
ItemDocument(fragments) == ItemNodes(1, 0, "li", fragments)

InitExperienceItem ==
    /\ arg \in ExperienceInputs
    /\ soup = ItemDocument(arg)
    /\ profile_data = InitializeStructure
    /\ exc = None
    /\ pc = "call"
    /\ ret = <<>>
    /\ NoScraper

\* one call of _parse_experience_item(item) on the sub-block; ret collects
\* the records returned
CallParseExperienceItem ==
    /\ pc \in {"call", "return"}
    /\ Len(ret) < MaxParseCalls
    /\ ret' = Append(ret, ParseExperienceItem(soup, 1))
    /\ soup' = TreeAfterReads(soup)
    /\ pc' = "return"
    /\ UNCHANGED <<profile_data, exc, arg, web>>

NextExperienceItem == CallParseExperienceItem

SpecExperienceItem == InitExperienceItem /\ [][NextExperienceItem]_vars

MaxChainFragments == 4

EducationChainPieces ==
    {"State University", "Diploma, GPA 2020", "Certificate of activities",
     "GPA 3.9, activities 2019 - 2020 and more"}

CertificationPieces ==
    {"Acme Cloud", "Issued Jan 2021", "EXPIRES  June 2024",
     "Issued Jan 2021 ^ Expires Jan 2024", "Not issued, expires 2024"}

RecordPieces ==
    {"Engine", "Built with brass gears 12",
     "A mechanical calculator built from brass gears",
     "Jan 2019 - Mar 2020, a long-running effort",
     "Education for every child in the county"}

ChainInputs ==
    [parse_experience_item    |-> ExperienceInputs,
     parse_education_item     |->
         SeqsOver(EducationChainPieces, MaxChainFragments),
     parse_certification_item |->
         SeqsOver(CertificationPieces, MaxChainFragments),
     parse_project_item       |-> SeqsOver(RecordPieces, MaxChainFragments),
     parse_honor_item         |-> SeqsOver(RecordPieces, MaxChainFragments),
     parse_volunteer_item     |-> SeqsOver(RecordPieces, MaxChainFragments)]

InitRuleChains ==
    /\ IdleExtractor
    /\ pc \in DOMAIN ChainInputs
    /\ arg \in ChainInputs[pc]
    /\ ret = <<>>

\* the chain of the method pc names runs on the fragments arg; ret holds
\* the record once it has
RunChain(method, record) ==
    /\ pc = method
    /\ ret = <<>>
    /\ ret' = <<record>>
    /\ UNCHANGED <<soup, profile_data, pc, exc, arg, web>>

RunExperienceChain ==
    RunChain("parse_experience_item", ExperienceChain(arg, FALSE, <<>>))

RunEducationChain == RunChain("parse_education_item", EducationChain(arg))

RunCertificationChain ==
    RunChain("parse_certification_item", CertificationChain(arg))

RunProjectChain == RunChain("parse_project_item", ProjectChain(arg))

RunHonorChain == RunChain("parse_honor_item", HonorChain(arg))

RunVolunteerChain == RunChain("parse_volunteer_item", VolunteerChain(arg))

NextRuleChains ==
    \/ RunExperienceChain
    \/ RunEducationChain
    \/ RunCertificationChain
    \/ RunProjectChain
    \/ RunHonorChain
    \/ RunVolunteerChain

SpecRuleChains == InitRuleChains /\ [][NextRuleChains]_vars

(***************************************************************************)
(* Claims about the rule chains                                            *)
(***************************************************************************)
\* the fragment at a position, None for position 0 (nothing consumed)
TextAt(texts, p) == IF p = 0 THEN None ELSE texts[p]

\* no position occurs twice among the positions consumed
NoPositionTwice(used) ==
    \A i, j \in 1..Len(used) : (i # j /\ used[i] # 0) => used[i] # used[j]

\* rules is the list of the pattern rules of a chain in declared order,
\* each with the position it consumed (at) and the positions whose
\* fragments satisfy its predicate (fits): a rule consumes a fragment that
\* fits an earlier rule only if that rule consumed a fragment in front of it
OrderKept(rules) ==
    \A i, j \in 1..Len(rules) :
        (i < j /\ rules[j].at # 0 /\ rules[j].at \in rules[i].fits)
            => (rules[i].at # 0 /\ rules[i].at < rules[j].at)

Fitting(texts, P(_)) == {p \in 1..Len(texts) : P(texts[p])}

Rule(at, fits) == [at |-> at, fits |-> fits]

ExperienceAgrees(rec, texts, c) ==
    /\ rec.job_title = TextAt(texts, c.job_title)
    /\ rec.company_name = TextAt(texts, c.company_name)
    /\ rec.employment_type = TextAt(texts, c.employment_type)
    /\ rec.location = TextAt(texts, c.location)
    /\ IF c.date = 0
       THEN rec.start_date = None /\ rec.end_date = None /\ rec.duration = None
       ELSE /\ rec.start_date = ExtractDateRange(texts[c.date]).start_date
            /\ rec.end_date = ExtractDateRange(texts[c.date]).end_date
            /\ rec.duration = ExtractDateRange(texts[c.date]).duration
    /\ rec.description =
           [k \in 1..Len(c.description) |-> texts[c.description[k]]]

ExperienceRemoval(rec, texts, c) ==
    /\ ExperienceAgrees(rec, texts, c)
    /\ NoPositionTwice(<<c.job_title, c.company_name, c.employment_type,
                         c.date, c.location>> \o c.description)
    /\ OrderKept(
           <<Rule(c.employment_type, Fitting(texts, IsEmploymentType)),
             Rule(c.date, Fitting(texts, IsDateRange)),
             Rule(c.location, Fitting(texts, IsLocation))>>
           \o [k \in 1..Len(c.description) |->
                  Rule(c.description[k],
                       Fitting(texts, LAMBDA t : Len(t) > 50))])

EducationRemoval(rec, texts, c) ==
    /\ rec.institution_name = TextAt(texts, c.institution_name)
    /\ (rec.degree # None) <=> (c.degree # 0)
    /\ c.degree # 0 => rec.degree = Strip(SplitComma(texts[c.degree])[1])
    /\ (rec.end_year # None) <=> (c.years # 0)
    /\ c.years # 0 =>
           rec.end_year = YearFindAll(texts[c.years])[
                              Len(YearFindAll(texts[c.years]))]
    /\ rec.grade = TextAt(texts, c.grade)
    /\ rec.activities = TextAt(texts, c.activities)
    /\ NoPositionTwice(<<c.institution_name, c.degree, c.years, c.grade,
                         c.activities>>)
    /\ OrderKept(<<Rule(c.degree, Fitting(texts, IsDegree)),
                   Rule(c.years, Fitting(texts, HasYears)),
                   Rule(c.grade, Fitting(texts, IsGrade)),
                   Rule(c.activities, Fitting(texts, IsActivities))>>)

CertificationRemoval(rec, texts, c) ==
    /\ rec.name = TextAt(texts, c.name)
    /\ rec.issuing_organization = TextAt(texts, c.issuing_organization)
    /\ (rec.issue_date # None \/ rec.expiration_date # None)
           <=> (c.dates # <<>>)
    /\ rec.issue_date # None =>
           \E k \in 1..Len(c.dates) :
               WordThenMonthYear(texts[c.dates[k]], "issued")
                   = <<rec.issue_date>>
    /\ rec.expiration_date # None =>
           \E k \in 1..Len(c.dates) :
               WordThenMonthYear(texts[c.dates[k]], "expires")
                   = <<rec.expiration_date>>
    /\ NoPositionTwice(<<c.name, c.issuing_organization>> \o c.dates)

ProjectRemoval(rec, texts, c) ==
    /\ rec.project_name = TextAt(texts, c.project_name)
    /\ rec.associated_dates = TextAt(texts, c.associated_dates)
    /\ rec.description = TextAt(texts, c.description)
    /\ NoPositionTwice(<<c.project_name, c.associated_dates, c.description>>)
    /\ OrderKept(<<Rule(c.associated_dates, Fitting(texts, LooksLikeDate)),
                   Rule(c.description,
                        Fitting(texts, LAMBDA t : Len(t) > 30))>>)

HonorRemoval(rec, texts, c) ==
    /\ rec.title = TextAt(texts, c.title)
    /\ rec.issuer = TextAt(texts, c.issuer)
    /\ rec.date = TextAt(texts, c.date)
    /\ rec.description = TextAt(texts, c.description)
    /\ NoPositionTwice(<<c.title, c.issuer, c.date, c.description>>)
    /\ OrderKept(<<Rule(c.date, Fitting(texts, LooksLikeDate)),
                   Rule(c.description,
                        Fitting(texts, LAMBDA t : Len(t) > 20))>>)

VolunteerRemoval(rec, texts, c) ==
    /\ rec.role = TextAt(texts, c.role)
    /\ rec.organization = TextAt(texts, c.organization)
    /\ rec.date_range = TextAt(texts, c.date_range)
    /\ rec.cause = TextAt(texts, c.cause)
    /\ rec.description = TextAt(texts, c.description)
    /\ NoPositionTwice(<<c.role, c.organization, c.date_range, c.cause,
                         c.description>>)
    /\ OrderKept(<<Rule(c.date_range,
                        Fitting(texts, LooksLikeDateOrPresent)),
                   Rule(c.cause, Fitting(texts, IsCause)),
                   Rule(c.description,
                        Fitting(texts, LAMBDA t : Len(t) > 30))>>)

\* C14: in every rule chain the record is the one the steps give when they
\* run in declared order, each on the fragments the steps before it left;
\* no position of the fragment sequence is consumed by two steps, and a
\* step consumes a fragment an earlier step's predicate accepts only when
\* that step consumed a fragment in front of it.
RemovalOnMatch ==
    ret # <<>> =>
        CASE pc = "parse_experience_item" ->
                 ExperienceRemoval(ret[1], arg, ExperienceConsumed(arg))
          [] pc = "parse_education_item" ->
                 EducationRemoval(ret[1], arg, EducationConsumed(arg))
          [] pc = "parse_certification_item" ->
                 CertificationRemoval(ret[1], arg, CertificationConsumed(arg))
          [] pc = "parse_project_item" ->
                 ProjectRemoval(ret[1], arg, ProjectConsumed(arg))
          [] pc = "parse_honor_item" ->
                 HonorRemoval(ret[1], arg, HonorConsumed(arg))
          [] pc = "parse_volunteer_item" ->
                 VolunteerRemoval(ret[1], arg, VolunteerConsumed(arg))

\* a volunteering sub-block that holds twice a fragment that is a date and
\* a long text: the date step took the first of the two positions and the
\* description the second
RemovalOnMatchWitness ==
    /\ pc = "parse_volunteer_item"
    /\ ret # <<>>
    /\ Len(arg) = 4
    /\ arg[3] = arg[4]
    /\ ret[1].date_range = "Jan 2019 - Mar 2020, a long-running effort"
    /\ ret[1].cause = None
    /\ ret[1].description = "Jan 2019 - Mar 2020, a long-running effort"

(***************************************************************************)
(* Claims about calling extract() again, and about the document            *)
(***************************************************************************)
\* C12: the result extract() returned stays as it was returned: calling
\* extract() again changes no field and lets no record list grow, and every
\* later call returns a result equal to the first.  The returned result is
\* self.profile_data itself, so it is profile_data that has to stay equal
\* to what the first call returned.
ResultImmutableAfterReturn ==
    ret # None =>
        /\ profile_data = ret[1]
        /\ \A k \in 1..Len(ret) : ret[k] = ret[1]

MaxSectionNodes == 4

SectionNodeNames == {"li", "ul", "div", "span"}

RECURSIVE OpenNodes(_, _)
\* node 1 is the root and parents[k] the parent of node k + 1: node j and
\* its ancestors, the nodes that can take a child behind node j
OpenNodes(parents, j) ==
    IF j = 1 THEN {1} ELSE {j} \cup OpenNodes(parents, parents[j - 1])

RECURSIVE SectionShapes(_)
\* the shapes of the trees of n nodes below a root, the nodes in document
\* order: the parent of a node is the node before it or an ancestor of it
SectionShapes(n) ==
    IF n = 0 THEN {<<>>}
    ELSE UNION {{Append(parents, p) : p \in OpenNodes(parents, n)} :
                   parents \in SectionShapes(n - 1)}

\* the tree of a section element over the elements of the names, of the
\* shape the parents give
SectionTree(root, names, parents) ==
    <<Elem(root, 0, {})>>
    \o [k \in 1..Len(names) |-> Elem(names[k], parents[k], {})]

\* the section is any tree of a section or div element over at most
\* MaxSectionNodes elements, of every shape and naming
InitSegmenter ==
    /\ \E n \in 0..MaxSectionNodes :
           \E root \in {"section", "div"},
              names \in [1..n -> SectionNodeNames],
              parents \in SectionShapes(n) :
               soup = SectionTree(root, names, parents)
    /\ profile_data = InitializeStructure
    /\ exc = None
    /\ pc = "call"
    /\ arg = 1
    /\ ret = <<>>
    /\ NoScraper

CallGetListItemsFromSection ==
    /\ pc = "call"
    /\ ret' = <<GetListItemsFromSection(soup, arg)>>
    /\ pc' = "return"
    /\ soup' = TreeAfterReads(soup)
    /\ UNCHANGED <<profile_data, exc, arg, web>>

NextSegmenter == CallGetListItemsFromSection

SpecSegmenter == InitSegmenter /\ [][NextSegmenter]_vars

\* the nodes of a sequence are those of a set, each once, in document order
InOrderExactly(nodes, set) ==
    /\ \A k \in 1..Len(nodes) : nodes[k] \in set
    /\ \A x \in set : \E k \in 1..Len(nodes) : nodes[k] = x
    /\ \A k \in 1..Len(nodes) - 1 : nodes[k] < nodes[k + 1]

Unmarked(texts) ==
    {i \in 1..Len(texts) :
        ~Contains(Lower(texts[i]), "experience") /\ ~Contains(texts[i], MIDDOT)}

\* the title is the fragment at the least position of a set and the company
\* the fragment right behind it; with an empty set the title is unset and
\* the company is the first fragment
TitleThenCompany(rec, texts, positions) ==
    IF positions = {}
    THEN rec.job_title = None /\ rec.company_name = texts[1]
    ELSE LET i == CHOOSE x \in positions : \A y \in positions : x <= y
         IN  /\ rec.job_title = texts[i]
             /\ rec.company_name = IF i < Len(texts) THEN texts[i + 1] ELSE None

\* C16 as stated: the title is the first fragment that contains neither
\* "experience" nor a middle dot, whatever its length, and the company is
\* the fragment right behind the title.
TitleIsFirstUnmarked ==
    pc = "return" /\ arg # <<>> =>
        TitleThenCompany(ret[1], arg, Unmarked(arg))

\* C16: the title is the first fragment longer than 3 characters that
\* contains neither "experience" (in any case) nor a middle dot, and the
\* company is the fragment right behind the title, unset when the title is
\* the last fragment; when no fragment qualifies the title is unset and the
\* company is the first fragment.
TitleIsFirstLongUnmarked ==
    pc = "return" /\ arg # <<>> =>
        TitleThenCompany(ret[1], arg,
                         {i \in Unmarked(arg) : Len(arg[i]) > 3})

\* a sub-block that opens with a fragment of two characters and a heading:
\* the title is the third fragment and the company the fourth
TitleIsFirstLongUnmarkedWitness ==
    /\ pc = "return"
    /\ Len(arg) = 4
    /\ arg[1] = "QA"
    /\ arg[2] = "My Experience"
    /\ ret[1].job_title = arg[3]
    /\ ret[1].company_name = arg[4]

(***************************************************************************)
(* Claims about the pattern rules of the experience chain                  *)
(***************************************************************************)
\* the least position of a set, 0 for the empty set
FirstOf(positions) ==
    IF positions = {} THEN 0
    ELSE CHOOSE x \in positions : \A y \in positions : x <= y

\* the positions the pattern rules start from: those behind the title
\* without the one of the company
BehindCompany(texts, c) ==
    {p \in 1..Len(texts) : p > c.job_title} \ {c.company_name}

\* the record is the one the positions c give, and no pattern rule consumed
\* a fragment that satisfies the predicate of a rule in front of it
NoLaterRuleTakes(rec, texts, c) ==
    /\ ExperienceAgrees(rec, texts, c)
    /\ c.date # 0 => ~IsEmploymentType(texts[c.date])
    /\ c.location # 0 =>
           ~IsEmploymentType(texts[c.location]) /\ ~IsDateRange(texts[c.location])

\* the record is the one the positions c give, and each pattern rule
\* consumed the first fragment that satisfies its predicate among those
\* the steps in front of it left
EachRuleTakesFirstLeft(rec, texts, c) ==
    /\ ExperienceAgrees(rec, texts, c)
    /\ c.employment_type =
           FirstOf({p \in BehindCompany(texts, c) :
                       \E w \in EmploymentTypes : Contains(texts[p], w)})
    /\ c.date =
           FirstOf({p \in BehindCompany(texts, c) \ {c.employment_type} :
                       IsDateRange(texts[p])})
    /\ c.location =
           FirstOf({p \in BehindCompany(texts, c) \ {c.employment_type, c.date} :
                       /\ \/ Contains(texts[p], ",")
                          \/ Contains(Lower(texts[p]), "remote")
                          \/ Contains(Lower(texts[p]), "hybrid")
                       /\ Len(texts[p]) < 100})

\* C17 as stated: a fragment a pattern rule consumed satisfies the
\* predicate of no rule in front of that rule; one that satisfies the
\* employment-type predicate is never the date range or the location.
EarliestRuleConsumes ==
    pc = "return" /\ arg # <<>> =>
        NoLaterRuleTakes(ret[1], arg, ExperienceConsumed(arg))

\* C17: each pattern rule (employment type, date range, location, in this
\* order) consumes the first fragment that satisfies its predicate among
\* the fragments the title, the company and the rules in front of it have
\* left, and nothing when there is none.  So a fragment that satisfies
\* the predicate of an earlier rule is consumed by a later rule whenever
\* the earlier rule has consumed another fragment in front of it.
EachRuleConsumesFirstLeft ==
    pc = "return" /\ arg # <<>> =>
        EachRuleTakesFirstLeft(ret[1], arg, ExperienceConsumed(arg))

\* behind title and company come two fragments with an employment-type
\* keyword: the first is the employment type, the second the location
EachRuleConsumesFirstLeftWitness ==
    /\ pc = "return"
    /\ Len(arg) = 4
    /\ ret[1].employment_type = arg[3]
    /\ arg[3] = "Full-time"
    /\ ret[1].location = arg[4]
    /\ arg[4] = "Contract, remote"

(***************************************************************************)
(* Claims about the grammar of a date range                                *)
(***************************************************************************)
\* the names of the months, whole and abbreviated, in lower case
MonthNames ==
    {"january", "february", "march", "april", "may", "june", "july",
     "august", "september", "october", "november", "december",
     "jan", "feb", "mar", "apr", "jun", "jul", "aug", "sep", "sept",
     "oct", "nov", "dec"}

\* four digits
IsYear(s) == Len(s) = 4 /\ \A i \in 1..4 : IsDigit(Ch(s, i))

\* the name of a month, whitespace, four digits
IsMonthYear(s) ==
    /\ Len(s) > 5
    /\ IsYear(SubSeq(s, Len(s) - 3, Len(s)))
    /\ IsSpace(Ch(s, Len(s) - 4))
    /\ Lower(Strip(SubSeq(s, 1, Len(s) - 4))) \in MonthNames

\* C18: a start that _extract_date_range returns is a 4-digit year or the
\* name of a month followed by a 4-digit year, and the end is one of these
\* or "Present" (in any case); no other word followed by a year is
\* returned as part of start or end.
DateRangeGrammar ==
    (pc = "return" /\ ret.start_date # None) =>
        /\ IsYear(ret.start_date) \/ IsMonthYear(ret.start_date)
        /\ \/ IsYear(ret.end_date)
           \/ IsMonthYear(ret.end_date)
           \/ Lower(ret.end_date) = "present"

(***************************************************************************)
(* Claims about the certification chain                                    *)
(***************************************************************************)
\* the characters a..b of a text are at least one and all satisfy C
RunOf(text, a, b, C(_)) == a <= b /\ \A i \in a..b : C(Ch(text, i))

\* the text contains the word in any case, whitespace, letters, whitespace
\* and four digits
HasWordMonthYear(text, word) ==
    \E i \in 1..(Len(text) - Len(word) + 1) :
        /\ Lower(SubSeq(text, i, i + Len(word) - 1)) = word
        /\ \E b \in (i + Len(word) + 1)..Len(text) :
               /\ RunOf(text, i + Len(word), b - 1, IsSpace)
               /\ \E c \in (b + 1)..Len(text) :
                      /\ RunOf(text, b, c - 1, IsAlpha)
                      /\ \E d \in (c + 1)..(Len(text) - 3) :
                             /\ RunOf(text, c, d - 1, IsSpace)
                             /\ RunOf(text, d, d + 3, IsDigit)

\* C19: the first fragment is the name and the second the issuing
\* organization, whatever they hold; issue_date is set exactly when a
\* fragment from the third on contains "issued <word> <4 digits>" and
\* expiration_date exactly when one contains "expires <word> <4 digits>",
\* in any case, the one whether or not the other is.
CertificationFields ==
    (pc = "parse_certification_item" /\ ret # <<>> /\ arg # <<>>) =>
        /\ ret[1].name = arg[1]
        /\ ret[1].issuing_organization =
               IF Len(arg) >= 2 THEN arg[2] ELSE None
        /\ (ret[1].issue_date # None)
               <=> \E k \in 3..Len(arg) : HasWordMonthYear(arg[k], "issued")
        /\ (ret[1].expiration_date # None)
               <=> \E k \in 3..Len(arg) : HasWordMonthYear(arg[k], "expires")

\* a certificate whose name reads like an issue date and whose third
\* fragment gives the expiry alone: the name sets no date, the expiry is
\* set without an issue date
CertificationFieldsWitness ==
    /\ pc = "parse_certification_item"
    /\ ret # <<>>
    /\ Len(arg) = 3
    /\ arg[1] = "Issued Jan 2021"
    /\ arg[3] = "EXPIRES  June 2024"
    /\ ret[1].name = "Issued Jan 2021"
    /\ ret[1].issue_date = None
    /\ ret[1].expiration_date = "June 2024"

(***************************************************************************)
(* Claims about the fallback description                                   *)
(***************************************************************************)
\* the description is the first fragment longer than the threshold among
\* the positions that are not in used, the positions the steps in front
\* consumed; it is unset when there is none
FirstLongLeft(description, texts, used, threshold) ==
    description =
        TextAt(texts, FirstOf({p \in 1..Len(texts) :
                                  p \notin used /\ Len(texts[p]) > threshold}))

ProjectDescription(rec, texts, c) ==
    /\ rec.project_name = TextAt(texts, c.project_name)
    /\ rec.associated_dates = TextAt(texts, c.associated_dates)
    /\ FirstLongLeft(rec.description, texts,
                     {c.project_name, c.associated_dates}, 30)

HonorDescription(rec, texts, c) ==
    /\ rec.title = TextAt(texts, c.title)
    /\ rec.issuer = TextAt(texts, c.issuer)
    /\ rec.date = TextAt(texts, c.date)
    /\ FirstLongLeft(rec.description, texts, {c.title, c.issuer, c.date}, 20)

VolunteerDescription(rec, texts, c) ==
    /\ rec.role = TextAt(texts, c.role)
    /\ rec.organization = TextAt(texts, c.organization)
    /\ rec.date_range = TextAt(texts, c.date_range)
    /\ rec.cause = TextAt(texts, c.cause)
    /\ FirstLongLeft(rec.description, texts,
                     {c.role, c.organization, c.date_range, c.cause}, 30)

\* C20: the description of a project, honor or volunteering record is the
\* first fragment, in order, longer than the threshold (30, 20, 30) among
\* the fragments that the name, issuer or organization, date and cause
\* steps have not consumed; it is unset when no such fragment is left, and
\* it is never a fragment one of those steps consumed.
FallbackDescription ==
    (ret # <<>> /\ arg # <<>>) =>
        CASE pc = "parse_project_item" ->
                 ProjectDescription(ret[1], arg, ProjectConsumed(arg))
          [] pc = "parse_honor_item" ->
                 HonorDescription(ret[1], arg, HonorConsumed(arg))
          [] pc = "parse_volunteer_item" ->
                 VolunteerDescription(ret[1], arg, VolunteerConsumed(arg))
          [] OTHER -> TRUE

\* an honor whose third fragment is a date of more than 20 characters and
\* whose fourth has 25: the date is not the description, the fourth
\* fragment is, though a project would not take it
FallbackDescriptionWitness ==
    /\ pc = "parse_honor_item"
    /\ ret # <<>>
    /\ Len(arg) = 4
    /\ arg[3] = "Jan 2019 - Mar 2020, a long-running effort"
    /\ arg[4] = "Built with brass gears 12"
    /\ ret[1].date = arg[3]
    /\ ret[1].description = arg[4]

(***************************************************************************)
(* SpecBasicProfile: _extract_basic_profile on a top card and an About     *)
(* section                                                                 *)
(***************************************************************************)
MaxAboutFragments == 3

ProfilePlaces ==
    {"London, England", "Greater Boston Area", "Paris",
     "Location: Berlin, Germany",
     "Upper Street, Lower Town, Middle County, Northern Province, Western Territory, Far Eastern Federation, Earth"}

AboutPieces ==
    {"I code.", "Summary",
     "I build analytical engines for a living",
     "Engines, poems and long walks every day",
     "Mathematics and poetry, in equal measure"}

\* a place for the top card, the attributes of the About section and the
\* fragments of its only item
ProfileInputs ==
    [place : ProfilePlaces, attrs : {Marked, Plain},
     about : SeqsOver(AboutPieces, MaxAboutFragments)]

ProfileDocument(input) ==
    DocumentOf(<<>>,
        << [kind |-> "card", name |-> "  Ada \n Lovelace ",
            headline |-> "Analyst of engines at Babbage and Co",
            place |-> input.place],
           Section("section", input.attrs, "About", "li", <<input.about>>) >>)

InitBasicProfile ==
    /\ arg \in ProfileInputs
    /\ soup = ProfileDocument(arg)
    /\ profile_data = InitializeStructure
    /\ exc = None
    /\ pc = "call"
    /\ ret = <<>>
    /\ NoScraper

CallExtractBasicProfile ==
    /\ pc = "call"
    /\ profile_data' = ExtractBasicProfile(soup, profile_data).data
    /\ exc' = ExtractBasicProfile(soup, profile_data).exc
    /\ pc' = "return"
    /\ soup' = TreeAfterReads(soup)
    /\ UNCHANGED <<arg, ret, web>>

NextBasicProfile == CallExtractBasicProfile

SpecBasicProfile == InitBasicProfile /\ [][NextBasicProfile]_vars

\* the first text of a sequence at one of the positions, None without one
FirstTextAt(texts, positions) ==
    IF positions = {} THEN None
    ELSE texts[CHOOSE i \in positions : \A j \in positions : i <= j]

\* the location is the first of the texts shorter than 100 characters that
\* is comma-separated words or holds "area" or "location"
LocationIsFirstOf(location, texts) ==
    location =
        FirstTextAt(texts,
            {k \in 1..Len(texts) :
                /\ Len(texts[k]) < 100
                /\ \/ IsCommaSeparated(texts[k])
                   \/ Contains(Lower(texts[k]), "area")
                   \/ Contains(Lower(texts[k]), "location")})

\* C21: the location of the basic profile is the first span, div or p
\* fragment in document order, shorter than 100 characters, that matches
\* the `word, word` pattern or holds an area/location keyword; a fragment
\* with a keyword and no comma qualifies.
LocationPatternOrKeyword ==
    pc = "return" =>
        LocationIsFirstOf(profile_data.basic_profile.location,
            NormalizedTexts(soup, FindAll(soup, 0, {"span", "div", "p"})))

(***************************************************************************)
(* Claims about the summary                                                *)
(***************************************************************************)
\* the first of the longest texts of a sequence at the positions
FirstLongestAt(texts, positions) ==
    FirstTextAt(texts,
        {i \in positions : \A j \in positions : Len(texts[j]) <= Len(texts[i])})

\* the About section is located
AboutLocated == FindSectionByHeader(soup, SECTION_HEADERS.about) # NoNode

\* C22 as stated: when the About section is located and has a fragment
\* that is not the header text, the summary is the longest fragment of
\* the section, the first on a tie.
SummaryIsLongestFragment ==
    (/\ pc = "return"
     /\ AboutLocated
     /\ \E k \in 1..Len(arg.about) : Lower(arg.about[k]) \notin {"about", "summary"})
        => profile_data.basic_profile.profile_summary =
               FirstLongestAt(arg.about,
                   {k \in 1..Len(arg.about) :
                       Lower(arg.about[k]) \notin {"about", "summary"}})

\* C22: when the About section is located, the summary is the longest of
\* its fragments that are longer than 20 characters and are not a header
\* keyword, the first on a tie; it stays unset when the section has no
\* such fragment or is not located.
SummaryIsLongestLongFragment ==
    pc = "return" =>
        profile_data.basic_profile.profile_summary =
            IF AboutLocated
            THEN FirstLongestAt(arg.about,
                     {k \in 1..Len(arg.about) :
                         /\ Lower(arg.about[k]) \notin {"about", "summary"}
                         /\ Len(arg.about[k]) > 20})
            ELSE None

\* a located section whose fragments are a short one and two of the same
\* greatest length: the summary is the first of the two
SummaryIsLongestLongFragmentWitness ==
    /\ pc = "return"
    /\ AboutLocated
    /\ arg.about = <<"I code.", "Engines, poems and long walks every day",
                     "I build analytical engines for a living">>
    /\ profile_data.basic_profile.profile_summary =
           "Engines, poems and long walks every day"

(***************************************************************************)
(* SpecSkills: the acceptance loop of _extract_skills on the fragments of  *)
(* a skills section                                                        *)
(***************************************************************************)
MaxSkillFragments == 3

SkillPieces ==
    {"Go", "SQL", "Python", "Python Programming", "Skills", "ENDORSEMENTS",
     "Distributed systems design and capacity planning",
     "Distributed systems design and capacity planning x"}

InitSkills ==
    /\ IdleExtractor
    /\ pc = "call"
    /\ arg \in SeqsOver(SkillPieces, MaxSkillFragments)
    /\ ret = <<>>

CallAcceptSkills ==
    /\ pc = "call"
    /\ ret' = <<AcceptSkills(<<>>, arg)>>
    /\ pc' = "return"
    /\ UNCHANGED <<soup, profile_data, exc, arg, web>>

NextSkills == CallAcceptSkills

SpecSkills == InitSkills /\ [][NextSkills]_vars

\* accepted is the set of the positions of the accepted fragments: a
\* fragment is accepted exactly when its length is between 3 and 49, it
\* is not a header word and no fragment accepted before it holds it
IsAcceptance(texts, accepted) ==
    \A k \in 1..Len(texts) :
        k \in accepted <=>
            /\ Len(texts[k]) > 2
            /\ Len(texts[k]) < 50
            /\ Lower(texts[k]) # "skills"
            /\ Lower(texts[k]) # "endorsements"
            /\ \A j \in accepted : j < k => ~Contains(texts[j], texts[k])

\* C23: the skills are the accepted fragments in the order met: a fragment
\* is accepted iff its length is strictly between 2 and 50, it is not the
\* word "skills" or "endorsements" in any case, and it is not equal to or
\* held in a skill accepted before it.
SkillsAcceptance ==
    pc = "return" =>
        \E accepted \in SUBSET (1..Len(arg)) :
            /\ IsAcceptance(arg, accepted)
            /\ ret[1] = [k \in 1..Cardinality(accepted) |->
                            arg[Ascending(accepted)[k]]]

\* a shorter skill in front of a longer one that holds it, and then the
\* shorter one again: the first two are accepted, the repeat is not
SkillsAcceptanceWitness ==
    /\ pc = "return"
    /\ arg = <<"Python", "Python Programming", "Python">>
    /\ ret[1] = <<"Python", "Python Programming">>

(***************************************************************************)
(* LinkedInScraper: the browser session of src/linked_scrapper_v3.py       *)
(*                                                                         *)
(* scraper holds the fields of the object, browser the Chrome window       *)
(* behind self.driver (open or not, the page it shows, whether the site    *)
(* takes it for a signed-in member, the height of the page, the pages      *)
(* loaded since the running call began) and session_file the cookie file   *)
(* (whether it exists, what its cookies are worth, how often it was        *)
(* written since the running call began).  A method works on a record of   *)
(* the three with the exception it raised (exc) and what it returned       *)
(* (result).  What the site, the user and the file system do is an         *)
(* argument of the method's operator, chosen freely by the action.         *)
(***************************************************************************)
HomeUrl       == "https://www.linkedin.com"
LoginUrl      == "https://www.linkedin.com/login"
FeedUrl       == "https://www.linkedin.com/feed/"
CheckpointUrl == "https://www.linkedin.com/checkpoint/challenge/"
AuthwallUrl   == "https://www.linkedin.com/authwall"
ProfileUrl    == "https://www.linkedin.com/in/ada-lovelace/"

\* LinkedInScraper.__init__
NewScraper == [driver |-> None, is_logged_in |-> FALSE]

NoBrowser ==
    [open |-> FALSE, url |-> None, member |-> FALSE, height |-> 0,
     visited |-> <<>>]

World(s, b, f) ==
    [scraper |-> s, browser |-> b, session_file |-> f,
     exc |-> None, result |-> None]

Raising(w, exception) == [w EXCEPT !.exc = exception]

Returning(w, value) == [w EXCEPT !.result = value]

\* the condition of a scraper method at its first statement
Called(w) ==
    [w EXCEPT !.exc = None, !.result = None,
              !.browser.visited = <<>>, !.session_file.written = 0]

\* _setup_driver; setup tells whether Chrome starts ("ok"), does not
\* ("no_chrome"), or starts and fails the script of the last line
SetupDriver(w, setup) ==
    LET started == [w EXCEPT !.scraper.driver = "driver",
                             !.browser.open = TRUE,
                             !.browser.url = "data:,",
                             !.browser.member = FALSE,
                             !.browser.height = 0]
    IN  CASE setup = "ok" -> started
          [] setup = "no_chrome" -> Raising(w, "WebDriverException")
          [] OTHER -> Raising(started, "JavascriptException")

\* self.driver.get(url) on a page that lands at `lands`; a window that has
\* been quit takes no command
DriverGet(w, url, lands) ==
    IF ~w.browser.open THEN Raising(w, "WebDriverException")
    ELSE [w EXCEPT !.browser.visited = Append(@, url),
                   !.browser.url = lands,
                   !.browser.height = 0]

\* _save_session; save tells whether the file can be written
SaveSession(w, save) ==
    IF save = "ok"
    THEN [w EXCEPT !.session_file.exists = TRUE,
                   !.session_file.cookies =
                       IF w.browser.member THEN "valid" ELSE "expired",
                   !.session_file.written = @ + 1]
    ELSE Raising(w, "OSError")

\* _load_session that never finds a session to restore
LoadSessionNever(w) == Returning(w, FALSE)

\* _load_session: result is what it returns.  The cookies of the file take
\* the place of the ones the window holds.
LoadSession(w) ==
    LET Checked(feed) ==
            IF feed.exc # None THEN Returning(w, FALSE)
            ELSE IF \/ Contains(feed.browser.url, "login")
                    \/ Contains(feed.browser.url, "authwall")
                 THEN Returning(feed, FALSE)
                 ELSE Returning([feed EXCEPT !.scraper.is_logged_in = TRUE],
                                TRUE)
        WithCookies(home, member) ==
            Checked(DriverGet([home EXCEPT !.browser.member = member],
                              FeedUrl,
                              IF member THEN FeedUrl ELSE LoginUrl))
        Loaded(home) ==
            IF home.exc # None THEN Returning(w, FALSE)
            ELSE IF w.session_file.cookies = "unreadable"
                 THEN Returning(home, FALSE)
                 ELSE WithCookies(home, w.session_file.cookies = "valid")
    IN  IF ~w.session_file.exists THEN Returning(w, FALSE)
        ELSE Loaded(DriverGet(w, HomeUrl, HomeUrl))

\* WebDriverWait(self.driver, 300).until(...): the user signs in and the
\* feed shows, or the wait times out
WaitForFeed(w, user) ==
    IF user = "signs_in"
    THEN [w EXCEPT !.browser.url = FeedUrl, !.browser.member = TRUE]
    ELSE Raising(w, "TimeoutException")

\* the page behind the click on the login button and the sleep: the site
\* puts a challenge in the way, or it lets the right password in and shows
\* the login page again for a wrong one
AfterSubmit(w, password, site) ==
    IF site = "challenges" THEN [w EXCEPT !.browser.url = CheckpointUrl]
    ELSE IF password = "wrong" THEN [w EXCEPT !.browser.url = LoginUrl]
    ELSE [w EXCEPT !.browser.url = FeedUrl, !.browser.member = TRUE]

\* the automated branch of login behind driver.get: the form, the click,
\* the verification challenge, and the manual wait of the except clause
AutomatedLogin(w, password, env) ==
    LET Fallback(failed) == WaitForFeed(failed, env.user_again)
        Submitted(page) ==
            IF \/ Contains(page.browser.url, "checkpoint")
               \/ Contains(page.browser.url, "challenge")
            THEN (IF env.user = "signs_in" THEN WaitForFeed(page, env.user)
                  ELSE Fallback(page))
            ELSE page
    IN  IF env.form = "missing" THEN Fallback(w)
        ELSE Submitted(AfterSubmit(w, password, env.site))

\* login(email, password); credentials is None, or the password it holds
\* is "right" or "wrong"
Login(w0, credentials, env) ==
    LET Finished(signed) ==
            IF signed.exc # None THEN signed
            ELSE SaveSession([signed EXCEPT !.scraper.is_logged_in = TRUE],
                             env.save)
        Manual(page) ==
            IF page.exc # None THEN page
            ELSE Finished(IF credentials = None
                          THEN WaitForFeed(page, env.user)
                          ELSE AutomatedLogin(page, credentials, env))
        Restored(loaded) ==
            IF loaded.result = TRUE THEN Returning(loaded, None)
            ELSE Manual(DriverGet(Returning(loaded, None), LoginUrl, LoginUrl))
        WithDriver(w) ==
            IF w.exc # None THEN w ELSE Restored(LoadSession(w))
    IN  WithDriver(IF w0.scraper.driver = None
                   THEN SetupDriver(Called(w0), env.setup)
                   ELSE Called(w0))

\* a close() that leaves the window as it is
CloseNothing(w0) == Called(w0)

\* close()
Close(w0) ==
    LET w == Called(w0)
    IN  IF w.scraper.driver # None THEN [w EXCEPT !.browser.open = FALSE]
        ELSE w

\* what the site, the user and the file system may do during a login
LoginEnvs ==
    [setup : {"ok", "no_chrome", "script_fails"},
     form : {"found", "missing"},
     site : {"lets_in", "challenges"},
     user : {"signs_in", "gives_up"},
     user_again : {"signs_in", "gives_up"},
     save : {"ok", "fails"}]

NotAccessible ==
    "Profile not accessible. You may not have permission to view this profile."

\* scrape_profile down to the scroll loop: the guard, the navigation and the
\* authwall check; shows tells what the site serves a member at the profile
ScrapeProfileOpen(w0, shows) ==
    LET Landed(page) ==
            IF page.exc # None THEN page
            ELSE IF Contains(page.browser.url, "authwall")
                 THEN Raising(page, NotAccessible)
                 ELSE page
        w == Called(w0)
    IN  IF ~w.scraper.is_logged_in
        THEN Raising(w, "Not logged in. Call login() first.")
        ELSE Landed(DriverGet(w, ProfileUrl,
                              IF w.browser.member /\ shows = "profile"
                              THEN ProfileUrl ELSE AuthwallUrl))

max_scrolls == 10

\* no call of scrape_profile is in its loop
NoFrame == [caller |-> None, last_height |-> 0, scroll_attempts |-> 0]

\* no call has been made
NoCall == [method |-> None]

\* the locals of scrape_profile at the head of the while loop
ScrollFrame(caller, height) ==
    [caller |-> caller, last_height |-> height, scroll_attempts |-> 0]

\* document.body.scrollHeight after an act that lengthens the page or not
HeightAfter(height, grows) == IF grows THEN height + 1 ELSE height

\* a pass that leaves the loop as soon as the scroll did not lengthen the
\* page, without trying the buttons
ScrollPassNoClicks(scroll, click) ==
    LET scrolled == HeightAfter(browser.height, scroll)
    IN  /\ browser' = [browser EXCEPT !.height = HeightAfter(scrolled, click)]
        /\ IF scrolled = frame.last_height
           THEN /\ pc' = "scrolled"
                /\ frame' = frame
           ELSE /\ pc' = "scrolling"
                /\ frame' = [frame EXCEPT !.last_height = scrolled,
                                          !.scroll_attempts = @ + 1]

\* one pass of the body of the while loop of scrape_profile: the scroll, the
\* clicks on "Show more" and "Show all" when the height stood still, the
\* break when it still stands.  scroll and click tell whether the page grew.
ScrollPass(scroll, click) ==
    LET scrolled == HeightAfter(browser.height, scroll)
        new_height == IF scrolled = frame.last_height
                      THEN HeightAfter(scrolled, click)
                      ELSE scrolled
    IN  /\ browser' = [browser EXCEPT !.height = new_height]
        /\ IF scrolled = frame.last_height /\ new_height = frame.last_height
           THEN /\ pc' = "scrolled"
                /\ frame' = frame
           ELSE /\ pc' = "scrolling"
                /\ frame' = [frame EXCEPT !.last_height = new_height,
                                          !.scroll_attempts = @ + 1]

(***************************************************************************)
(* SpecSession: a client holds one LinkedInScraper and calls login,        *)
(* scrape_profile and close on it in any order.  arg is the call that runs *)
(* or ran last, ret the outcomes of the calls that have come back.         *)
(***************************************************************************)
MaxCalls == 3

SessionFiles ==
    {[exists |-> FALSE, cookies |-> None, written |-> 0]}
    \cup [exists : {TRUE}, cookies : {"valid", "expired", "unreadable"},
          written : {0}]

Credentials == {None, "right", "wrong"}

InitSession ==
    /\ soup = None
    /\ profile_data = None
    /\ pc = "idle"
    /\ exc = None
    /\ arg = NoCall
    /\ ret = <<>>
    /\ scraper = NewScraper
    /\ browser = NoBrowser
    /\ session_file \in SessionFiles
    /\ frame = NoFrame

Here == World(scraper, browser, session_file)

\* a call comes back to the client with the outcome out
ComesBack(method, out) ==
    /\ pc' = "idle"
    /\ exc' = out.exc
    /\ ret' = Append(ret, [method |-> method, exc |-> out.exc,
                           result |-> out.result])

Lands(out) ==
    /\ scraper' = out.scraper
    /\ browser' = out.browser
    /\ session_file' = out.session_file

ClientLogin ==
    /\ pc = "idle"
    /\ Len(ret) < MaxCalls
    /\ \E credentials \in Credentials, env \in LoginEnvs :
          LET Done(out) == Lands(out) /\ ComesBack("login", out)
          IN  /\ arg' = [method |-> "login", credentials |-> credentials]
              /\ Done(Login(Here, credentials, env))
    /\ UNCHANGED <<soup, profile_data, frame>>

ClientScrapeProfile ==
    /\ pc = "idle"
    /\ Len(ret) < MaxCalls
    /\ arg' = [method |-> "scrape_profile", profile_url |-> ProfileUrl]
    /\ \E shows \in {"profile", "authwall"} :
          LET Begun(out) ==
                  /\ Lands(out)
                  /\ IF out.exc # None
                     THEN ComesBack("scrape_profile", out) /\ frame' = frame
                     ELSE /\ pc' = "scrolling"
                          /\ frame' = ScrollFrame("client", out.browser.height)
                          /\ UNCHANGED <<exc, ret>>
          IN  Begun(ScrapeProfileOpen(Here, shows))
    /\ UNCHANGED <<soup, profile_data>>

ScrollStep ==
    /\ pc = "scrolling"
    /\ frame.scroll_attempts < max_scrolls
    /\ \E scroll, click \in BOOLEAN : ScrollPass(scroll, click)
    /\ UNCHANGED <<soup, profile_data, exc, arg, ret, scraper, session_file>>

\* the condition of the while loop fails
ScrollLimit ==
    /\ pc = "scrolling"
    /\ ~(frame.scroll_attempts < max_scrolls)
    /\ pc' = "scrolled"
    /\ UNCHANGED <<soup, profile_data, exc, arg, ret, web>>

\* html = self.driver.page_source; return html
ClientGetsPageSource ==
    /\ pc = "scrolled"
    /\ frame.caller = "client"
    /\ ComesBack("scrape_profile", Returning(Here, "html"))
    /\ frame' = NoFrame
    /\ UNCHANGED <<soup, profile_data, arg, scraper, browser, session_file>>

ClientClose ==
    /\ pc = "idle"
    /\ Len(ret) < MaxCalls
    /\ arg' = [method |-> "close"]
    /\ LET Done(out) == Lands(out) /\ ComesBack("close", out)
       IN  Done(Close(Here))
    /\ UNCHANGED <<soup, profile_data, frame>>

NextSession ==
    \/ ClientLogin
    \/ ClientScrapeProfile
    \/ ScrollStep
    \/ ScrollLimit
    \/ ClientGetsPageSource
    \/ ClientClose

SpecSession == InitSession /\ [][NextSession]_vars

\* the call that has just come back, seen from the step that ends it
CameBack(method) ==
    /\ Len(ret') = Len(ret) + 1
    /\ ret'[Len(ret')].method = method

Visited(url) == \E i \in 1..Len(browser.visited) : browser.visited[i] = url

\* The first half of C24: scrape_profile called on a scraper whose
\* is_logged_in is false raises "Not logged in" with no page loaded and
\* with driver and is_logged_in as they were.
NotLoggedInRaises ==
    [][(pc = "idle" /\ ~scraper.is_logged_in
            /\ (CameBack("scrape_profile") \/ pc' = "scrolling"))
       => /\ pc' = "idle"
          /\ exc' = "Not logged in. Call login() first."
          /\ browser'.visited = <<>>
          /\ browser'.url = browser.url
          /\ scraper' = scraper]_vars

\* C24: scrape_profile on a scraper that is not logged in raises "Not logged
\* in" before any navigation and leaves driver and is_logged_in alone, and
\* from a fresh scraper the profile page is never loaded unless a call of
\* login() has come back without an exception before.
ProfileOnlyAfterLogin ==
    Visited(ProfileUrl)
        => \E k \in 1..Len(ret) : ret[k].method = "login" /\ ret[k].exc = None

\* the saved session can be restored: the file is there, its cookies are
\* still good, and the window takes commands (or is yet to be opened)
SessionRestorable ==
    /\ session_file.exists
    /\ session_file.cookies = "valid"
    /\ (scraper.driver = None \/ browser.open)

VisitedAfter(url) ==
    \E i \in 1..Len(browser'.visited) : browser'.visited[i] = url

\* C25: login restores the saved session first.  With a session file whose
\* session is valid, a login that returns has is_logged_in true, has not
\* loaded the login page and has not written the session file; the login
\* page is loaded only when the restoration failed, and a login that
\* returns after that has set is_logged_in and written the session file
\* exactly once.
SessionFirst ==
    [][(pc = "idle" /\ CameBack("login"))
       => /\ (SessionRestorable /\ exc' = None)
               => /\ scraper'.is_logged_in
                  /\ ~VisitedAfter(LoginUrl)
                  /\ session_file'.written = 0
                  /\ session_file'.exists
                  /\ session_file'.cookies = session_file.cookies
          /\ (SessionRestorable /\ exc' # None) => browser'.visited = <<>>
          /\ VisitedAfter(LoginUrl) => ~SessionRestorable
          /\ (exc' = None /\ ~SessionRestorable)
               => /\ VisitedAfter(LoginUrl)
                  /\ scraper'.is_logged_in
                  /\ session_file'.written = 1
                  /\ session_file'.exists]_vars

\* a login has come back from a restored session: the home page and the feed
\* were loaded, nothing else, and the file was left alone
SessionFirstWitness ==
    /\ pc = "idle"
    /\ Len(ret) > 0
    /\ ret[Len(ret)].method = "login"
    /\ ret[Len(ret)].exc = None
    /\ browser.visited = <<HomeUrl, FeedUrl>>
    /\ scraper.is_logged_in
    /\ session_file.written = 0

\* the page the window shows tells that the user is signed in
ShowsSignedIn(url) == Contains(url, "feed") \/ Contains(url, "mynetwork")

\* C26: is_logged_in turns true only in a call that saw the window signed
\* in, by the feed check of the restored session or by "feed" (or
\* "mynetwork") in the current URL after the login attempt; a login whose
\* password the site rejected leaves the window at the login page, not
\* signed in, and so never leaves is_logged_in true.
LoggedInOnlyWhenObserved ==
    [][(~scraper.is_logged_in /\ scraper'.is_logged_in)
       => /\ arg'.method = "login"
          /\ ShowsSignedIn(browser'.url)
          /\ browser'.member]_vars

\* SpecSession with the statements of a running scrape_profile carried out:
\* a method that has begun its loop goes on to the next statement
SpecSessionFair ==
    /\ SpecSession
    /\ WF_vars(ScrollStep)
    /\ WF_vars(ScrollLimit)
    /\ WF_vars(ClientGetsPageSource)

\* the outcome of a scrape_profile that came back with the page source
PageSourceReturned ==
    /\ pc = "idle"
    /\ Len(ret) > 0
    /\ ret[Len(ret)] = [method |-> "scrape_profile", exc |-> None,
                        result |-> "html"]

\* C27: the scroll loop of scrape_profile terminates.  It counts at most 10
\* passes; it is left before the tenth exactly when the height of the page
\* is, after the scroll and after the clicks on "Show more"/"Show all", what
\* it was before the pass; and whichever way it is left, the page source is
\* returned next.
ScrollLoopTerminates ==
    /\ [](pc \in {"scrolling", "scrolled"} => frame.scroll_attempts <= 10)
    /\ [][/\ (pc = "scrolling" /\ frame.scroll_attempts < 10)
                => /\ (pc' = "scrolled") = (browser'.height = frame.last_height)
                   /\ (pc' = "scrolling")
                          = (/\ browser'.height # frame.last_height
                             /\ frame'.scroll_attempts
                                    = frame.scroll_attempts + 1)
          /\ (pc = "scrolling" /\ frame.scroll_attempts >= 10)
                => pc' = "scrolled" /\ browser' = browser
          /\ pc = "scrolled" => PageSourceReturned']_vars
    /\ (pc = "scrolling") ~> (pc = "scrolled")
    /\ (pc = "scrolled") ~> PageSourceReturned

\* the loop was left at the limit: ten passes, each with a longer page
ScrollLoopTerminatesWitness ==
    /\ pc = "scrolled"
    /\ frame.scroll_attempts = 10
    /\ browser.height = frame.last_height
    /\ browser.height >= 10

(***************************************************************************)
(* SpecFromUrl: one call of scrape_linkedin_profile_from_url.  The scraper *)
(* of line 842 exists; arg holds the arguments, exc the exception that is  *)
(* on its way out of the try block, ret the outcome once the function is   *)
(* left.                                                                   *)
(***************************************************************************)
InitFromUrl ==
    /\ soup = None
    /\ profile_data = None
    /\ pc = "main_login"
    /\ exc = None
    /\ arg \in [method : {"scrape_linkedin_profile_from_url"},
                credentials : Credentials, save_html : BOOLEAN]
    /\ ret = <<>>
    /\ scraper = NewScraper
    /\ browser = NoBrowser
    /\ session_file \in SessionFiles
    /\ frame = NoFrame

\* the try block goes on at `next`, or an exception sends it to the finally
TryGoesOn(out, next) ==
    /\ exc' = out.exc
    /\ pc' = IF out.exc # None THEN "main_finally" ELSE next

\* scraper.login(email, password)
MainLogin ==
    /\ pc = "main_login"
    /\ \E env \in LoginEnvs :
          LET Done(out) == Lands(out) /\ TryGoesOn(out, "main_scrape")
          IN  Done(Login(Here, arg.credentials, env))
    /\ UNCHANGED <<soup, profile_data, arg, ret, frame>>

\* html = scraper.scrape_profile(profile_url), down to the loop
MainScrapeProfile ==
    /\ pc = "main_scrape"
    /\ \E shows \in {"profile", "authwall"} :
          LET Begun(out) ==
                  /\ Lands(out)
                  /\ TryGoesOn(out, "scrolling")
                  /\ frame' = IF out.exc # None THEN frame
                              ELSE ScrollFrame("main", out.browser.height)
          IN  Begun(ScrapeProfileOpen(Here, shows))
    /\ UNCHANGED <<soup, profile_data, arg, ret>>

\* scrape_profile returns the page source to the function
MainGetsPageSource ==
    /\ pc = "scrolled"
    /\ frame.caller = "main"
    /\ pc' = "main_extract"
    /\ frame' = NoFrame
    /\ UNCHANGED <<soup, profile_data, exc, arg, ret, scraper, browser,
                   session_file>>

\* the rest of the try block: the HTML file when save_html is set, then the
\* extraction; either may raise
MainExtract ==
    /\ pc = "main_extract"
    /\ \E raised \in {None, "OSError", "AttributeError"} :
          /\ raised = "OSError" => arg.save_html
          /\ exc' = raised
    /\ pc' = "main_finally"
    /\ UNCHANGED <<soup, profile_data, arg, ret, web>>

\* finally: scraper.close(); then the function returns profile_data or lets
\* the exception go on
MainFinally ==
    /\ pc = "main_finally"
    /\ LET closed == Close(Here)
       IN  /\ scraper' = closed.scraper
           /\ browser' = closed.browser
           /\ session_file' = closed.session_file
    /\ pc' = "done"
    /\ ret' = <<[method |-> arg.method, exc |-> exc,
                result |-> IF exc = None THEN "profile_data" ELSE None]>>
    /\ UNCHANGED <<soup, profile_data, exc, arg, frame>>

NextFromUrl ==
    \/ MainLogin
    \/ MainScrapeProfile
    \/ ScrollStep
    \/ ScrollLimit
    \/ MainGetsPageSource
    \/ MainExtract
    \/ MainFinally

SpecFromUrl == InitFromUrl /\ [][NextFromUrl]_vars

\* C28: scrape_linkedin_profile_from_url closes the browser on every path:
\* when the function is left, with profile_data or with an exception on its
\* way out, no window that a driver opened is open, and while the function
\* runs the window is closed by nothing but the close() of the finally.
BrowserClosedAtExit ==
    /\ [](pc = "done" => ~browser.open)
    /\ [][/\ pc' = "done" => pc = "main_finally"
          /\ (browser.open /\ ~browser'.open) => pc = "main_finally"]_vars

\* the function was left by an exception after the profile was refused, and
\* the window that login had opened is closed
BrowserClosedAtExitWitness ==
    /\ pc = "done"
    /\ exc = NotAccessible
    /\ scraper.driver # None
    /\ scraper.is_logged_in
    /\ ~browser.open

(***************************************************************************)
(* LinkedInScraperV2 of src/linkedin_scrapper_v2.py                        *)
(*                                                                         *)
(* scraper holds driver and session_stats, browser the Chrome window.  A   *)
(* Python value kept in a profile field is written as its literal: "" for  *)
(* the empty string, "[]" for the empty list, "{}" for the empty dict.     *)
(***************************************************************************)
\* the methods the class body of LinkedInScraperV2 defines
LinkedInScraperV2Methods ==
    {"__init__", "_setup_logging", "setup_driver", "_random_delay",
     "_safe_click", "_safe_get_text", "_smart_scroll", "login_manual",
     "login_email_password", "scrape_profile", "_extract_name",
     "_extract_headline", "_extract_location", "_extract_about",
     "_handle_show_more_buttons", "_extract_profile_image",
     "_extract_followers_count", "_extract_connections_count",
     "login_with_email_password", "login_with_google",
     "login_with_microsoft", "save_to_json", "save_to_csv", "save_to_excel",
     "close"}

\* the extractor calls of scrape_profile in their order, each with the
\* field of the profile its value is assigned to
ExtractorCalls ==
    << [method |-> "_extract_name", field |-> "name"],
       [method |-> "_extract_headline", field |-> "headline"],
       [method |-> "_extract_location", field |-> "location"],
       [method |-> "_extract_about", field |-> "about"],
       [method |-> "_extract_profile_image", field |-> "profile_image_url"],
       [method |-> "_extract_followers_count", field |-> "followers_count"],
       [method |-> "_extract_connections_count",
        field |-> "connections_count"],
       [method |-> "_extract_experience", field |-> "experience"],
       [method |-> "_extract_education", field |-> "education"],
       [method |-> "_extract_certifications", field |-> "certifications"],
       [method |-> "_extract_skills", field |-> "skills"],
       [method |-> "_extract_languages", field |-> "languages"],
       [method |-> "_extract_projects", field |-> "projects"],
       [method |-> "_extract_volunteer_experience",
        field |-> "volunteer_experience"],
       [method |-> "_extract_contact_info", field |-> "contact_info"] >>

ListFields ==
    {"experience", "education", "certifications", "skills", "languages",
     "projects", "volunteer_experience"}

\* LinkedInProfile(url=profile_url), in the fields scrape_profile assigns
LinkedInProfile(url) ==
    [type |-> "LinkedInProfile",
     url |-> url,
     fields |-> [f \in {ExtractorCalls[i].field : i \in 1..Len(ExtractorCalls)}
                    |-> IF f \in ListFields THEN "[]"
                        ELSE IF f = "contact_info" THEN "{}" ELSE ""]]

PyNone == [type |-> "NoneType"]

\* the AttributeError of a call of a method the object does not have
NoAttribute(method) ==
    "'LinkedInScraperV2' object has no attribute '" \o method \o "'"

\* LinkedInScraperV2.__init__
NewScraperV2 ==
    [driver |-> None,
     session_stats |-> [profiles_scraped |-> 0, profiles_failed |-> 0,
                        errors |-> <<>>]]

\* setup_driver: logs a failure and raises it again
SetupDriverV2(w, setup) == SetupDriver(w, setup)

\* the extractor calls of lines 426-458 from the i-th on; page tells whether
\* the elements are on the page ("found"), are not ("absent"), or the
\* lookup raises something an extractor does not catch ("stale")
RECURSIVE RunExtractors(_, _, _, _)
RunExtractors(w, profile, i, page) ==
    LET call == ExtractorCalls[i]
    IN  IF i > Len(ExtractorCalls) THEN Returning(w, profile)
        ELSE IF call.method \notin LinkedInScraperV2Methods
        THEN Raising(w, NoAttribute(call.method))
        ELSE IF page = "stale" THEN Raising(w, "WebDriverException")
        ELSE RunExtractors(w,
                 [profile EXCEPT !.fields[call.field] =
                      IF page = "found" THEN "<" \o call.field \o ">" ELSE @],
                 i + 1, page)

\* the try block of scrape_profile
TryScrapeProfile(w0, profile_url, env) ==
    LET Scrolled(w) ==
            IF env.scroll = "raises" THEN Raising(w, "WebDriverException")
            ELSE RunExtractors(w, LinkedInProfile(profile_url), 1, env.page)
        Loaded(w) ==
            IF w.exc # None THEN w
            ELSE IF env.navigation = "timeout"
                 THEN Raising(w, "TimeoutException")
                 ELSE Scrolled(w)
        WithDriver(w) ==
            IF w.exc # None THEN w
            ELSE Loaded(DriverGet(w, profile_url, profile_url))
    IN  WithDriver(IF w0.scraper.driver = None
                   THEN SetupDriverV2(Called(w0), env.setup)
                   ELSE Called(w0))

\* a scrape_profile that lets a failure go by without counting it
ScrapeProfileV2Uncounted(w0, profile_url, env) ==
    LET Ended(w) ==
            IF w.exc # None THEN Returning(Raising(w, None), PyNone)
            ELSE [w EXCEPT !.scraper.session_stats.profiles_scraped = @ + 1]
    IN  Ended(TryScrapeProfile(w0, profile_url, env))

\* scrape_profile: the try block, the count of the success, and the except
\* clause that counts and records the failure and returns None
ScrapeProfileV2(w0, profile_url, env) ==
    LET Ended(w) ==
            IF w.exc # None
            THEN Returning(
                   Raising([w EXCEPT
                              !.scraper.session_stats.profiles_failed = @ + 1,
                              !.scraper.session_stats.errors =
                                  Append(@, [url |-> profile_url,
                                             error |-> w.exc])],
                           None),
                   PyNone)
            ELSE [w EXCEPT !.scraper.session_stats.profiles_scraped = @ + 1]
    IN  Ended(TryScrapeProfile(w0, profile_url, env))

\* LinkedInScraperV2.close
CloseV2(w0) == Returning(Close(w0), PyNone)

ScrapeEnvs ==
    [setup : {"ok", "no_chrome", "script_fails"},
     navigation : {"ok", "timeout"},
     scroll : {"ok", "raises"},
     page : {"found", "absent", "stale"}]

ProfileUrls == {ProfileUrl, "https://www.linkedin.com/in/charles-babbage/"}

(***************************************************************************)
(* SpecV2: a client holds one LinkedInScraperV2 and calls scrape_profile   *)
(* and close on it.                                                        *)
(***************************************************************************)
InitV2 ==
    /\ soup = None
    /\ profile_data = None
    /\ pc = "idle"
    /\ exc = None
    /\ arg = NoCall
    /\ ret = <<>>
    /\ scraper = NewScraperV2
    /\ browser = NoBrowser
    /\ session_file = [exists |-> FALSE, cookies |-> None, written |-> 0]
    /\ frame = NoFrame

ClientScrapeProfileV2 ==
    /\ pc = "idle"
    /\ Len(ret) < MaxCalls
    /\ \E profile_url \in ProfileUrls, env \in ScrapeEnvs :
          LET Done(out) == Lands(out) /\ ComesBack("scrape_profile", out)
          IN  /\ arg' = [method |-> "scrape_profile",
                         profile_url |-> profile_url, env |-> env]
              /\ Done(ScrapeProfileV2(Here, profile_url, env))
    /\ UNCHANGED <<soup, profile_data, frame>>

ClientCloseV2 ==
    /\ pc = "idle"
    /\ Len(ret) < MaxCalls
    /\ arg' = [method |-> "close"]
    /\ LET Done(out) == Lands(out) /\ ComesBack("close", out)
       IN  Done(CloseV2(Here))
    /\ UNCHANGED <<soup, profile_data, frame>>

NextV2 ==
    \/ ClientScrapeProfileV2
    \/ ClientCloseV2

SpecV2 == InitV2 /\ [][NextV2]_vars

Stats == scraper.session_stats

\* the calls of `method` that have come back
Completed(method) == {k \in 1..Len(ret) : ret[k].method = method}

\* C29: LinkedInScraperV2.scrape_profile never raises.  Each call adds one
\* to exactly one of profiles_scraped and profiles_failed, returns a
\* LinkedInProfile if and only if it added to profiles_scraped and None
\* otherwise, and appends one entry to errors if and only if it failed; so
\* profiles_scraped + profiles_failed is the number of completed calls.
ScrapeProfileCounts ==
    /\ [][(pc = "idle" /\ CameBack("scrape_profile"))
          => LET scraped == Stats'.profiles_scraped - Stats.profiles_scraped
                 failed == Stats'.profiles_failed - Stats.profiles_failed
             IN  /\ exc' = None
                 /\ {scraped, failed} = {0, 1}
                 /\ (ret'[Len(ret')].result.type = "LinkedInProfile")
                        = (scraped = 1)
                 /\ (ret'[Len(ret')].result = PyNone) = (failed = 1)
                 /\ Len(Stats'.errors) = Len(Stats.errors) + failed
                 /\ SubSeq(Stats'.errors, 1, Len(Stats.errors)) = Stats.errors
                 /\ failed = 1
                        => Stats'.errors[Len(Stats'.errors)].url
                               = arg'.profile_url]_vars
    /\ [](Stats.profiles_scraped + Stats.profiles_failed
              = Cardinality(Completed("scrape_profile")))

\* two calls have come back, both counted as failures, one for a driver that
\* did not start and one for a page that was loaded and scrolled
ScrapeProfileCountsWitness ==
    /\ pc = "idle"
    /\ Cardinality(Completed("scrape_profile")) = 2
    /\ Stats.profiles_failed = 2
    /\ Len(Stats.errors) = 2
    /\ Stats.errors[1].error = "WebDriverException"
    /\ Stats.errors[2].error # "WebDriverException"
    /\ ret[Len(ret)].result = PyNone

\* the driver is set up (or was), the page loads, the scroll goes through
\* and no element lookup raises during the call that has just come back
NothingFails ==
    /\ arg'.env.setup = "ok" \/ (scraper.driver # None /\ browser.open)
    /\ scraper.driver # None => browser.open
    /\ arg'.env.navigation = "ok"
    /\ arg'.env.scroll = "ok"
    /\ arg'.env.page # "stale"

\* C30: when driver setup, navigation and scrolling succeed and no element
\* lookup raises, scrape_profile returns a LinkedInProfile with its url set
\* and the fields of experience, education, certifications, skills,
\* languages, projects, volunteer experience and contact info assigned from
\* their extractors, and adds one to profiles_scraped.
ScrapesWhenNothingFails ==
    [][(pc = "idle" /\ CameBack("scrape_profile") /\ NothingFails)
       => /\ ret'[Len(ret')].result.type = "LinkedInProfile"
          /\ ret'[Len(ret')].result.url = arg'.profile_url
          /\ Stats'.profiles_scraped = Stats.profiles_scraped + 1]_vars


=============================================================================
